---------------------------- MODULE Spec2Model ----------------------------
(***************************************************************************)
(* Wallet-Pass: relational store of pass templates ("classes") and issued  *)
(* pass instances ("objects"), the fan-out of a template update to the     *)
(* instances, and the lookup of a remote resource whose subtype is unknown.*)
(*                                                                         *)
(* Python strings whose characters matter (identifiers) are sequences of   *)
(* one-character strings; documents (dict) are functions from keys to      *)
(* values; a None column is NULL; a table is a function whose domain is    *)
(* the set of keys that have a row.                                        *)
(***************************************************************************)
EXTENDS Integers, Sequences, FiniteSets, TLC

VARIABLES
    db,       \* the relational store: a record of tables
    lastOp,   \* the store operation that ran last, its arguments and outcome
    prop,     \* the running propagate_class_update_to_passes invocation
    pushLog,  \* every WalletClient.update_pass_object call made so far
    lk,       \* the running WalletClient.get_class / get_object call
    calc,     \* input and output of the pure function applied last
    remote,   \* the remote gateway: whether a client exists, the documents it holds
    reqs,     \* the number of requests handled so far
    handlers  \* the position and the local values of each request in flight

vars == <<db, lastOp, prop, pushLog, lk, calc, remote, reqs, handlers>>

NULL == "NULL"

(***************************************************************************)
(* Bounds                                                                  *)
(***************************************************************************)
MaxPad == 1          \* whitespace characters around an identifier typed by a user
MaxClasses == 2      \* templates in the store
MaxObjects == 2      \* instances in the store
MaxFanOut == 3       \* instances in the store a propagation runs over
MaxInvocations == 2  \* propagations in one behaviour
MaxModules == 1      \* length of a text-module / message list
MaxRequests == 3     \* requests in one behaviour of a counted specification
MaxCalls == 2        \* requests to the endpoints in one behaviour
MaxHandlers == 2     \* template updates in flight at once
MaxIdLen == 3        \* characters of a local id after its optional issuer digits
MaxDepth == 3        \* nesting depth of a document that is stripped

(***************************************************************************)
(* Strings                                                                 *)
(***************************************************************************)
\* configs.ISSUER_ID
ISSUER_ID == <<"3","3","8","8","0","0","0","0","0","0","0","2","3","0","3","3","6","7","5">>

\* the characters str.strip() removes
Whitespace == {" ", "\t", "\n"}

\* str.startswith
StartsWith(s, p) == Len(s) >= Len(p) /\ SubSeq(s, 1, Len(p)) = p

RECURSIVE LStrip(_)
LStrip(s) == IF s # <<>> /\ Head(s) \in Whitespace THEN LStrip(Tail(s)) ELSE s

RECURSIVE RStrip(_)
RStrip(s) == IF s # <<>> /\ s[Len(s)] \in Whitespace
             THEN RStrip(SubSeq(s, 1, Len(s) - 1)) ELSE s

\* str.strip()
Strip(s) == RStrip(LStrip(s))

\* "." in s
HasDot(s) == \E k \in 1..Len(s) : s[k] = "."

\* WalletClient._prepare_ids_to_try with the candidates in the wrong order
PrepareIdsToTry_RawFirst(input_id) ==
    LET clean_id == Strip(input_id) IN
    IF StartsWith(clean_id, ISSUER_ID)
    THEN <<clean_id>>
    ELSE <<clean_id, ISSUER_ID \o <<".">> \o clean_id>>

\* WalletClient._prepare_ids_to_try
PrepareIdsToTry(input_id) ==
    LET clean_id == Strip(input_id) IN
    IF StartsWith(clean_id, ISSUER_ID)
    THEN <<clean_id>>
    ELSE <<ISSUER_ID \o <<".">> \o clean_id, clean_id>>

RECURSIVE Spaces(_)
Spaces(n) == IF n = 0 THEN <<>> ELSE <<" ">> \o Spaces(n - 1)

\* identifiers a caller can pass: a suffix, possibly already carrying the
\* issuer digits (with or without the dot), possibly padded with blanks
IdBodies == { <<"x">>, <<"x", ".", "y">> }
IdCores == IdBodies
           \cup { ISSUER_ID \o <<".">> \o b : b \in IdBodies }
           \cup { ISSUER_ID \o b : b \in IdBodies }
RawIds == { Spaces(l) \o c \o Spaces(r) : l \in 0..MaxPad, r \in 0..MaxPad, c \in IdCores }

(***************************************************************************)
(* Remote lookups: WalletClient.get_class and WalletClient.get_object      *)
(***************************************************************************)
\* the resource subtypes get_object probes, in order
ObjectResources == <<"genericobject", "loyaltyobject", "offerobject", "giftcardobject",
                     "transitobject", "flightobject", "eventticketobject">>

\* the resource subtypes get_class probes, in order
ClassResources == <<"genericclass", "loyaltyclass", "offerclass", "giftcardclass",
                    "transitclass", "flightclass", "eventticketclass">>

LookupFns == {"get_class", "get_object"}

ResourcesOf(fn) == IF fn = "get_class" THEN ClassResources ELSE ObjectResources

\* the outcomes of resource.get(resourceId=...).execute(): 200 is a document,
\* everything else an HttpError with that status
HttpStatuses == {200, 400, 404, 500}

\* the except-clauses with a status test that also lets a server error through
ContinuableStatuses_ServerErrorToo(fn) ==
    IF fn = "get_class" THEN {404, 400, 500} ELSE {404, 500}

\* the statuses after which the loops `continue`
ContinuableStatuses(fn) == IF fn = "get_class" THEN {404, 400} ELSE {404}

HttpError(status, id, res) ==
    [kind |-> "HttpError", status |-> status, resourceId |-> id, resource |-> res]

\* last_error = None
NoError == [kind |-> "none"]

\* no probe recorded
NoProbe == [n |-> 0]

LookupIdle ==
    [fn |-> "none", pc |-> "idle", input |-> <<>>, ids |-> <<>>, i |-> 0, j |-> 0,
     last_error |-> NoError, result |-> NoError, nprobes |-> 0, probed |-> {},
     only404 |-> TRUE, last |-> NoProbe, first_decisive |-> NoProbe]

\* what the function raises once both loops are exhausted
Exhausted(fn, ids, last_error) ==
    IF last_error.kind # "none"
    THEN IF fn = "get_class"
         THEN [kind |-> "Exception", text |-> "Google Error (404): Class not found.",
               tried |-> ids, details |-> last_error]
         ELSE last_error
    ELSE [kind |-> "Exception",
          text |-> IF fn = "get_class" THEN "Unknown error fetching class"
                                       ELSE "Unknown error fetching object"]

\* entry of get_class / get_object up to the first probe
LookupBegin(fn, raw) ==
    /\ lk.pc = "idle"
    /\ lk' = [LookupIdle EXCEPT !.fn = fn, !.pc = "probing", !.input = raw,
                                !.ids = PrepareIdsToTry(raw), !.i = 1, !.j = 1]
    /\ UNCHANGED <<db, lastOp, prop, pushLog, calc, remote, reqs, handlers>>

\* one resource.get(resourceId=id).execute() and the handling of its outcome
Probe(status) ==
    /\ lk.pc = "probing"
    /\ LET id == lk.ids[lk.i]
           res == ResourcesOf(lk.fn)[lk.j]
           here == [i |-> lk.i, j |-> lk.j, id |-> id, resource |-> res,
                    status |-> status, n |-> lk.nprobes + 1]
           seen == [lk EXCEPT !.nprobes = lk.nprobes + 1,
                              !.probed = lk.probed \cup {id},
                              !.only404 = lk.only404 /\ status = 404,
                              !.last = here,
                              !.first_decisive =
                                  IF lk.first_decisive.n = 0 /\ status \notin {404, 400}
                                  THEN here ELSE lk.first_decisive]
       IN  IF status = 200
           THEN lk' = [seen EXCEPT !.pc = "returned",
                                   !.result = [kind |-> "document", id |-> id, resource |-> res]]
           ELSE IF status \in ContinuableStatuses(lk.fn)
           THEN LET err == HttpError(status, id, res) IN
                IF lk.j < Len(ResourcesOf(lk.fn))
                THEN lk' = [seen EXCEPT !.last_error = err, !.j = lk.j + 1]
                ELSE IF lk.i < Len(lk.ids)
                THEN lk' = [seen EXCEPT !.last_error = err, !.i = lk.i + 1, !.j = 1]
                ELSE lk' = [seen EXCEPT !.last_error = err, !.pc = "raised",
                                        !.result = Exhausted(lk.fn, lk.ids, err)]
           ELSE lk' = [seen EXCEPT !.pc = "raised", !.result = HttpError(status, id, res)]
    /\ UNCHANGED <<db, lastOp, prop, pushLog, calc, remote, reqs, handlers>>

\* C6: in get_class and in get_object alike, a probe that ends in 404 or 400
\* does not end the lookup: the next subtype is probed for the same candidate
\* id, and after the last subtype the next candidate id from its first subtype
\* (the lookup ends only when there is no probe left).
NonFatalProbeAdvances ==
    (lk.last.n # 0 /\ lk.last.status \in {404, 400}) =>
        IF lk.last.j < Len(ResourcesOf(lk.fn))
        THEN lk.pc = "probing" /\ lk.i = lk.last.i /\ lk.j = lk.last.j + 1
        ELSE IF lk.last.i < Len(lk.ids)
        THEN lk.pc = "probing" /\ lk.i = lk.last.i + 1 /\ lk.j = 1
        ELSE lk.pc = "raised"

\* C7: probes are issued in candidate-major, subtype-minor order, and the
\* first probe that succeeds or fails with a status other than 404 and 400
\* ends the lookup: a success returns that probe's document, an error is
\* raised as it is, and the number of probes issued stays the number issued
\* up to that probe.
FirstDecisiveProbeEndsLookup ==
    /\ lk.last.n # 0 =>
          /\ lk.last.n = lk.nprobes
          /\ lk.last.n = (lk.last.i - 1) * Len(ResourcesOf(lk.fn)) + lk.last.j
          /\ lk.last.id = lk.ids[lk.last.i]
          /\ lk.last.resource = ResourcesOf(lk.fn)[lk.last.j]
    /\ lk.first_decisive.n # 0 =>
          /\ lk.pc \in {"returned", "raised"}
          /\ lk.nprobes = lk.first_decisive.n
          /\ IF lk.first_decisive.status = 200
             THEN /\ lk.pc = "returned"
                  /\ lk.result = [kind |-> "document", id |-> lk.first_decisive.id,
                                  resource |-> lk.first_decisive.resource]
             ELSE /\ lk.pc = "raised"
                  /\ lk.result = [kind |-> "HttpError", status |-> lk.first_decisive.status,
                                  resourceId |-> lk.first_decisive.id,
                                  resource |-> lk.first_decisive.resource]

\* a lookup ended by a decisive probe that came after probes of the first
\* candidate id had all been not-found or bad-request
DecisiveProbeOnSecondCandidate ==
    /\ lk.pc \in {"returned", "raised"}
    /\ lk.first_decisive.n > Len(ResourcesOf(lk.fn))

\* C8: when every probe returned 404, get_class and get_object alike raise an
\* aggregate not-found error that lists every candidate id tried, not the
\* error of a single probe.
AllNotFoundRaisesAggregate ==
    (lk.pc = "raised" /\ lk.only404 /\ lk.nprobes = Len(lk.ids) * Len(ResourcesOf(lk.fn))) =>
        /\ lk.result.kind = "Exception"
        /\ "tried" \in DOMAIN lk.result
        /\ { lk.result.tried[k] : k \in 1..Len(lk.result.tried) } = lk.probed
        /\ lk.probed = { lk.ids[k] : k \in 1..Len(lk.ids) }

\* C9 as stated: [rawId] when rawId starts with the issuer prefix, otherwise
\* [prefix + "." + rawId, rawId].
PrepareIdsOnRawId ==
    lk.pc # "idle" =>
        lk.ids = IF StartsWith(lk.input, ISSUER_ID)
                 THEN <<lk.input>>
                 ELSE <<ISSUER_ID \o <<".">> \o lk.input, lk.input>>

\* c is s without its leading and trailing whitespace
IsTrimOf(c, s) ==
    /\ \E l \in 0..Len(s) : \E r \in 0..(Len(s) - l) :
          /\ c = SubSeq(s, l + 1, Len(s) - r)
          /\ \A k \in 1..l : s[k] \in Whitespace
          /\ \A k \in (Len(s) - r + 1)..Len(s) : s[k] \in Whitespace
    /\ c # <<>> => c[1] \notin Whitespace /\ c[Len(c)] \notin Whitespace

\* C9 amended: with c the rawId without its leading and trailing whitespace,
\* the candidates are [c] when c starts with the issuer prefix, and otherwise
\* [prefix + "." + c, c] in that order.
PrepareIdsOnTrimmedId ==
    lk.pc # "idle" =>
        LET c == lk.ids[Len(lk.ids)] IN
        /\ IsTrimOf(c, lk.input)
        /\ IF StartsWith(c, ISSUER_ID)
           THEN Len(lk.ids) = 1
           ELSE Len(lk.ids) = 2 /\ lk.ids[1] = ISSUER_ID \o <<".">> \o c

\* an unprefixed identifier typed with surrounding blanks has been expanded
PaddedUnprefixedIdPrepared ==
    /\ lk.pc # "idle"
    /\ lk.input # <<>> /\ lk.input[1] \in Whitespace
    /\ Len(lk.ids) = 2

(***************************************************************************)
(* Template documents: json_templates.get_template,                        *)
(* DatabaseManager._build_class_json and parse_google_wallet_class         *)
(***************************************************************************)
ClassTypes == {"Generic", "EventTicket", "LoyaltyCard", "GiftCard", "TransitPass"}

\* {} (a dict without keys)
EmptyDict == [k \in {} |-> NULL]

\* dict.get(key, default)
Get(d, key, default) == IF key \in DOMAIN d THEN d[key] ELSE default

\* {"defaultValue": {"language": "en-US", "value": v}}
Localized(v) == [defaultValue |-> [language |-> "en-US", value |-> v]]

\* {"sourceUri": {"uri": uri}, "contentDescription": {...}}
Image(uri, description) ==
    [sourceUri |-> [uri |-> uri], contentDescription |-> Localized(description)]

\* JSONTemplateManager._loyalty_card_template
LoyaltyCardTemplate(class_id, kwargs) ==
    [id |-> class_id,
     programLogo |-> Image(Get(kwargs, "program_logo_url", "https://images.unsplash.com/photo-1512568400610-62da28bc8a13?ixlib=rb-4.0.3&ixid=MnwxMjA3fDB8MHxwaG90by1wYWdlfHx8fGVufDB8fHx8&auto=format&fit=crop&w=660&h=660"),
                           Get(kwargs, "logo_description", "Program Logo")),
     localizedIssuerName |-> Localized(Get(kwargs, "issuer_name", "[TEST ONLY] Your Business")),
     localizedProgramName |-> Localized(Get(kwargs, "program_name", "Loyalty Program")),
     hexBackgroundColor |-> Get(kwargs, "background_color", "#72461d"),
     heroImage |-> Image(Get(kwargs, "hero_image_url", "https://images.unsplash.com/photo-1447933601403-0c6688de566e?ixlib=rb-4.0.3&ixid=MnwxMjA3fDB8MHxwaG90by1wYWdlfHx8fGVufDB8fHx8&auto=format&fit=crop&w=1032&h=336"),
                         Get(kwargs, "hero_description", "Hero Image")),
     reviewStatus |-> "UNDER_REVIEW"]

\* JSONTemplateManager._gift_card_template
GiftCardTemplate(class_id, kwargs) ==
    [id |-> class_id,
     programLogo |-> Image(Get(kwargs, "program_logo_url", "https://images.unsplash.com/photo-1513151233558-d860c5398176?ixlib=rb-4.0.3&ixid=MnwxMjA3fDB8MHxwaG90by1wYWdlfHx8fGVufDB8fHx8&auto=format&fit=crop&w=660&h=660"),
                           Get(kwargs, "logo_description", "Gift Card Logo")),
     localizedIssuerName |-> Localized(Get(kwargs, "issuer_name", "[TEST ONLY] Your Business")),
     hexBackgroundColor |-> Get(kwargs, "background_color", "#358b1d"),
     heroImage |-> Image(Get(kwargs, "hero_image_url", "https://images.unsplash.com/photo-1513151233558-d860c5398176?ixlib=rb-4.0.3&ixid=MnwxMjA3fDB8MHxwaG90by1wYWdlfHx8fGVufDB8fHx8&auto=format&fit=crop&w=1032&h=336"),
                         Get(kwargs, "hero_description", "Hero Image")),
     reviewStatus |-> "UNDER_REVIEW"]

\* JSONTemplateManager._event_ticket_template
EventTicketTemplate(class_id, kwargs) ==
    [id |-> class_id,
     issuerName |-> Get(kwargs, "issuer_name", "Your Business"),
     eventName |-> Localized(Get(kwargs, "event_name", "Event Name")),
     venue |-> [name |-> Localized(Get(kwargs, "venue_name", "Venue Name")),
                address |-> Localized(Get(kwargs, "venue_address", "123 Main St, City"))],
     dateTime |-> [start |-> Get(kwargs, "event_start", "2025-12-31T19:00:00")],
     logo |-> Image(Get(kwargs, "logo_url", "https://images.unsplash.com/photo-1512568400610-62da28bc8a13?ixlib=rb-4.0.3&auto=format&fit=crop&w=660&h=660"),
                    Get(kwargs, "logo_description", "Event Logo")),
     hexBackgroundColor |-> Get(kwargs, "background_color", "#4285f4"),
     heroImage |-> Image(Get(kwargs, "hero_image_url", "https://images.unsplash.com/photo-1492684223066-81342ee5ff30?ixlib=rb-4.0.3&auto=format&fit=crop&w=1032&h=336"),
                         Get(kwargs, "hero_description", "Event Hero")),
     reviewStatus |-> "UNDER_REVIEW"]

\* JSONTemplateManager._transit_pass_template
TransitPassTemplate(class_id, kwargs) ==
    [id |-> class_id,
     issuerName |-> Get(kwargs, "issuer_name", "Transit Authority"),
     transitType |-> Get(kwargs, "transit_type", "TRANSIT_TYPE_BUS"),
     logo |-> Image(Get(kwargs, "logo_url", "https://images.unsplash.com/photo-1544620347-c4fd4a3d5957?auto=format&fit=crop&w=660&h=660"),
                    Get(kwargs, "logo_description", "Transit Logo")),
     hexBackgroundColor |-> Get(kwargs, "background_color", "#1a73e8"),
     heroImage |-> Image(Get(kwargs, "hero_image_url", "https://images.unsplash.com/photo-1544620347-c4fd4a3d5957?auto=format&fit=crop&w=1032&h=336"),
                         Get(kwargs, "hero_description", "Transit Hero")),
     reviewStatus |-> "UNDER_REVIEW"]

\* JSONTemplateManager._generic_template
GenericTemplate(class_id, kwargs) ==
    [id |-> class_id,
     issuerName |-> Get(kwargs, "issuer_name", "Your Business"),
     header |-> Localized(Get(kwargs, "header_text", "Business Name")),
     cardTitle |-> Localized(Get(kwargs, "card_title", "Pass Title")),
     logo |-> Image(Get(kwargs, "logo_url", "https://images.unsplash.com/photo-1512568400610-62da28bc8a13?auto=format&fit=crop&w=660&h=660"),
                    Get(kwargs, "logo_description", "Logo")),
     hexBackgroundColor |-> Get(kwargs, "background_color", "#4285f4"),
     heroImage |-> Image(Get(kwargs, "hero_image_url", "https://images.unsplash.com/photo-1557804506-669a67965ba0?auto=format&fit=crop&w=1032&h=336"),
                         Get(kwargs, "hero_description", "Hero Image")),
     reviewStatus |-> "UNDER_REVIEW"]

\* JSONTemplateManager.get_template
GetTemplate(class_type, class_id, kwargs) ==
    LET full_class_id == IF HasDot(class_id) THEN class_id
                         ELSE ISSUER_ID \o <<".">> \o class_id
    IN  CASE class_type = "LoyaltyCard" -> LoyaltyCardTemplate(full_class_id, kwargs)
          [] class_type = "GiftCard"    -> GiftCardTemplate(full_class_id, kwargs)
          [] class_type = "EventTicket" -> EventTicketTemplate(full_class_id, kwargs)
          [] class_type = "TransitPass" -> TransitPassTemplate(full_class_id, kwargs)
          [] OTHER                      -> GenericTemplate(full_class_id, kwargs)

\* the columns of the row that get_class selects (parent LEFT JOIN children)
CommonColumns == {"issuer_name", "base_color", "logo_url", "hero_image_url"}
GenericColumns == {"header", "card_title"}
EventTicketColumns == {"event_name", "venue_name", "venue_address", "event_start"}
LoyaltyColumns == {"program_name"}
TransitColumns == {"transit_type", "transit_operator_name"}
ChildColumns == GenericColumns \cup EventTicketColumns \cup LoyaltyColumns \cup TransitColumns

\* DatabaseManager._build_class_json
BuildClassJson(result) ==
    LET class_type == Get(result, "class_type", "Generic")
        class_id == Get(result, "class_id", <<>>)
        common == [k \in {"background_color", "logo_url", "program_logo_url",
                          "hero_image_url", "issuer_name"} |->
                     CASE k = "background_color" -> Get(result, "base_color", NULL)
                       [] k = "logo_url"         -> Get(result, "logo_url", NULL)
                       [] k = "program_logo_url" -> Get(result, "logo_url", NULL)
                       [] k = "hero_image_url"   -> Get(result, "hero_image_url", NULL)
                       [] k = "issuer_name"      -> Get(result, "issuer_name", NULL)]
        specific ==
            CASE class_type = "Generic" ->
                   [k \in {"header_text", "card_title"} |->
                      IF k = "header_text" THEN Get(result, "header", NULL)
                      ELSE Get(result, "card_title", NULL)]
              [] class_type = "EventTicket" ->
                   [k \in {"event_name", "venue_name", "venue_address", "event_start"} |->
                      Get(result, k, NULL)]
              [] class_type = "LoyaltyCard" ->
                   [k \in {"program_name"} |-> Get(result, "program_name", NULL)]
              [] class_type = "TransitPass" ->
                   [k \in {"transit_type"} |-> Get(result, "transit_type", NULL)]
              [] OTHER -> EmptyDict
        args == [k \in DOMAIN common \cup DOMAIN specific |->
                    IF k \in DOMAIN specific THEN specific[k] ELSE common[k]]
        args_clean == [k \in {a \in DOMAIN args : args[a] # NULL} |-> args[k]]
    IN  GetTemplate(class_type, class_id, args_clean)

\* x.get(a, {}).get("defaultValue", {}).get("value") for a dict x[a]
DefaultValueOf(d) == Get(Get(d, "defaultValue", EmptyDict), "value", NULL)

\* x.get("sourceUri", {}).get("uri")
SourceUriOf(d) == Get(Get(d, "sourceUri", EmptyDict), "uri", NULL)

\* parse_google_wallet_class; the documents parsed here hold a dict under
\* programName and transitOperatorName whenever they hold these keys
ParseGoogleWalletClass(class_json) ==
    LET id == Get(class_json, "id", <<>>)
        has(k) == k \in DOMAIN class_json
    IN  [class_id |-> IF StartsWith(id, ISSUER_ID \o <<".">>)
                      THEN SubSeq(id, Len(ISSUER_ID) + 2, Len(id)) ELSE id,
         class_type |-> IF has("eventName") THEN "EventTicket"
                        ELSE IF has("programName") THEN "LoyaltyCard"
                        ELSE IF has("merchantName") /\ has("cardNumber") THEN "GiftCard"
                        ELSE IF has("transitType") THEN "TransitPass"
                        ELSE "Generic",
         base_color |-> IF has("hexBackgroundColor") THEN class_json["hexBackgroundColor"]
                        ELSE NULL,
         logo_url |-> IF has("programLogo") THEN SourceUriOf(class_json["programLogo"])
                      ELSE IF has("logo") THEN SourceUriOf(class_json["logo"])
                      ELSE NULL,
         hero_image_url |-> IF has("heroImage") THEN SourceUriOf(class_json["heroImage"])
                            ELSE NULL,
         issuer_name |-> IF has("localizedIssuerName")
                         THEN DefaultValueOf(class_json["localizedIssuerName"])
                         ELSE IF has("issuerName") THEN class_json["issuerName"]
                         ELSE NULL,
         header_text |-> IF has("header") THEN DefaultValueOf(class_json["header"]) ELSE NULL,
         card_title |-> IF has("cardTitle") THEN DefaultValueOf(class_json["cardTitle"]) ELSE NULL,
         event_name |-> IF has("eventName") THEN DefaultValueOf(class_json["eventName"]) ELSE NULL,
         venue_name |-> IF has("venue")
                        THEN DefaultValueOf(Get(class_json["venue"], "name", EmptyDict))
                        ELSE NULL,
         venue_address |-> IF has("venue")
                           THEN DefaultValueOf(Get(class_json["venue"], "address", EmptyDict))
                           ELSE NULL,
         event_start |-> IF has("dateTime") THEN Get(class_json["dateTime"], "start", NULL)
                         ELSE NULL,
         program_name |-> IF has("localizedProgramName")
                          THEN DefaultValueOf(class_json["localizedProgramName"])
                          ELSE IF has("programName") THEN DefaultValueOf(class_json["programName"])
                          ELSE NULL,
         transit_type |-> IF has("transitType") THEN class_json["transitType"] ELSE NULL,
         transit_operator_name |-> IF has("transitOperatorName")
                                   THEN DefaultValueOf(class_json["transitOperatorName"])
                                   ELSE NULL]

\* the value a column holds when it is not NULL
ColumnValue(col) ==
    CASE col = "issuer_name"    -> "Acme"
      [] col = "base_color"     -> "#112233"
      [] col = "logo_url"       -> "https://example.com/logo.png"
      [] col = "hero_image_url" -> "https://example.com/hero.jpg"
      [] col = "header"         -> "Acme Club"
      [] col = "card_title"     -> "Member"
      [] col = "event_name"     -> "Concert"
      [] col = "venue_name"     -> "Hall A"
      [] col = "venue_address"  -> "1 Hall Road"
      [] col = "event_start"    -> "2026-01-01T20:00:00"
      [] col = "program_name"   -> "Rewards"
      [] col = "transit_type"   -> "TRANSIT_TYPE_RAIL"
      [] col = "transit_operator_name" -> "Metro"

\* the child columns of a class type (GiftCard has no child table)
ColumnsOfType(class_type) ==
    CASE class_type = "Generic"     -> GenericColumns
      [] class_type = "EventTicket" -> EventTicketColumns
      [] class_type = "LoyaltyCard" -> LoyaltyColumns
      [] class_type = "TransitPass" -> TransitColumns
      [] OTHER                      -> {}

\* local class identifiers: without and with a "."
LocalClassIds == { <<"x">>, <<"x", ".", "y">> }

\* the joined row of a template whose present (non-NULL) columns are `present`
ClassRow(class_id, class_type, present) ==
    [k \in {"class_id", "class_type"} \cup CommonColumns \cup ChildColumns |->
        CASE k = "class_id"   -> class_id
          [] k = "class_type" -> class_type
          [] OTHER -> IF k \in present THEN ColumnValue(k) ELSE NULL]

\* the rows get_class can select: children of other types have no row
ClassRows ==
    { ClassRow(id, t, p) : id \in LocalClassIds,
                           t \in ClassTypes,
                           p \in SUBSET (CommonColumns \cup ChildColumns) }

\* synthesize the document of a stored row and parse it back
RoundTrip(row) ==
    /\ calc.fn = "none"
    /\ row \in ClassRows
    /\ \A k \in ChildColumns \ ColumnsOfType(row.class_type) : row[k] = NULL
    /\ LET doc == BuildClassJson(row) IN
       calc' = [fn |-> "roundtrip", row |-> row, doc |-> doc,
                parsed |-> ParseGoogleWalletClass(doc)]
    /\ UNCHANGED <<db, lastOp, prop, pushLog, lk, remote, reqs, handlers>>

\* C4: parsing the document synthesized from a template row gives back the
\* row's class_id, class_type, common fields and type-specific fields, for
\* every class type and also when optional columns are absent.
ParseOfBuildIsRow ==
    calc.fn = "roundtrip" =>
        /\ calc.parsed.class_id = calc.row.class_id
        /\ calc.parsed.class_type = calc.row.class_type
        /\ \A k \in CommonColumns : calc.parsed[k] = calc.row[k]
        /\ calc.parsed.header_text = calc.row.header
        /\ \A k \in ChildColumns \ {"header"} : calc.parsed[k] = calc.row[k]

\* C21: the document synthesized from a row has no entry at the path of a
\* common or type-specific column that is NULL in the row; the path of a
\* column is the one parse_google_wallet_class reads it from.
AbsentColumnHasNoEntry ==
    calc.fn = "roundtrip" =>
        \A k \in CommonColumns \cup ColumnsOfType(calc.row.class_type) :
            calc.row[k] = NULL => calc.parsed[IF k = "header" THEN "header_text" ELSE k] = NULL

(***************************************************************************)
(* Relational store: DatabaseManager                                       *)
(*                                                                         *)
(* db is a record of tables.  A table with a unique key is a function from *)
(* the keys that have a row to the row.  Pass_Text_Modules and             *)
(* Pass_Messages hold, per object_id, that object's rows in insertion      *)
(* order: no statement of the program relates rows of different objects.   *)
(* An operation returns [db |-> the store afterwards, ret |-> "True",      *)
(* "False" or "DatabaseError"]; get_connection rolls back on an error, so  *)
(* the store of a "DatabaseError" is the store before the call.            *)
(***************************************************************************)
Digits == <<"1", "2", "3", "4", "5", "6", "7", "8", "9">>

ClassId(n) == <<"t", Digits[n]>>
ObjectId(n) == <<"p", Digits[n]>>

ClassIds == { ClassId(n) : n \in 1..MaxClasses }
ObjectIds == { ObjectId(n) : n \in 1..MaxObjects }

EmptyTable == [k \in {} |-> NULL]

EmptyDb ==
    [Classes_Table |-> EmptyTable,
     GenericClass_Fields |-> EmptyTable,
     EventTicketClass_Fields |-> EmptyTable,
     LoyaltyClass_Fields |-> EmptyTable,
     TransitClass_Fields |-> EmptyTable,
     Passes_Table |-> EmptyTable,
     EventTicket_Fields |-> EmptyTable,
     Generic_Fields |-> EmptyTable,
     Pass_Text_Modules |-> EmptyTable,
     Pass_Messages |-> EmptyTable,
     Notifications_Table |-> <<>>]

\* INSERT / UPDATE of the row with key k
Put(t, k, row) == [x \in DOMAIN t \cup {k} |-> IF x = k THEN row ELSE t[x]]

\* DELETE of the rows with a key in ks
Drop(t, ks) == [x \in DOMAIN t \ ks |-> t[x]]

\* SELECT * FROM t WHERE object_id = k, for the two array tables
RowsOf(t, k) == IF k \in DOMAIN t THEN t[k] ELSE <<>>

\* the rows of object k become rows
SetRows(t, k, rows) == IF rows = <<>> THEN Drop(t, {k}) ELSE Put(t, k, rows)

Done(d, ret) == [db |-> d, ret |-> ret]

\* the table that holds the child row of a class type
ChildTableOf(class_type) ==
    CASE class_type = "Generic"     -> "GenericClass_Fields"
      [] class_type = "EventTicket" -> "EventTicketClass_Fields"
      [] class_type = "LoyaltyCard" -> "LoyaltyClass_Fields"
      [] class_type = "TransitPass" -> "TransitClass_Fields"
      [] OTHER                      -> "none"

ClassChildTables == {"GenericClass_Fields", "EventTicketClass_Fields",
                     "LoyaltyClass_Fields", "TransitClass_Fields"}

\* the child row create_class inserts for a class type
ChildRowOf(class_type, kw) ==
    CASE class_type = "Generic" ->
           [header |-> Get(kw, "header_text", NULL), card_title |-> Get(kw, "card_title", NULL)]
      [] class_type = "EventTicket" ->
           [event_name |-> Get(kw, "event_name", NULL), venue_name |-> Get(kw, "venue_name", NULL),
            venue_address |-> Get(kw, "venue_address", NULL),
            event_start |-> Get(kw, "event_start", NULL)]
      [] class_type = "LoyaltyCard" ->
           [program_name |-> Get(kw, "program_name", NULL)]
      [] class_type = "TransitPass" ->
           [transit_type |-> Get(kw, "transit_type", NULL),
            transit_operator_name |-> Get(kw, "transit_operator_name", NULL)]

\* DatabaseManager.create_class
CreateClassDb(d, class_id, class_type, kw) ==
    LET parent == [class_type |-> class_type,
                   issuer_name |-> Get(kw, "issuer_name", NULL),
                   base_color |-> Get(kw, "base_color", NULL),
                   logo_url |-> Get(kw, "logo_url", NULL),
                   hero_image_url |-> Get(kw, "hero_image_url", NULL)]
        child == ChildTableOf(class_type)
    IN  IF class_id \in DOMAIN d.Classes_Table
        THEN Done(d, "DatabaseError")
        ELSE IF child = "none"
        THEN Done([d EXCEPT !.Classes_Table = Put(@, class_id, parent)], "True")
        ELSE IF class_id \in DOMAIN d[child]
        THEN Done(d, "DatabaseError")
        ELSE Done([d EXCEPT !.Classes_Table = Put(@, class_id, parent),
                            ![child] = Put(@, class_id, ChildRowOf(class_type, kw))], "True")

\* the row DatabaseManager.get_class selects: the parent LEFT JOIN its children
JoinedClassRow(d, class_id) ==
    [k \in {"class_id", "class_type"} \cup CommonColumns \cup ChildColumns |->
        CASE k = "class_id" -> class_id
          [] k \in {"class_type"} \cup CommonColumns -> d.Classes_Table[class_id][k]
          [] k \in GenericColumns ->
               IF class_id \in DOMAIN d.GenericClass_Fields
               THEN d.GenericClass_Fields[class_id][k] ELSE NULL
          [] k \in EventTicketColumns ->
               IF class_id \in DOMAIN d.EventTicketClass_Fields
               THEN d.EventTicketClass_Fields[class_id][k] ELSE NULL
          [] k \in LoyaltyColumns ->
               IF class_id \in DOMAIN d.LoyaltyClass_Fields
               THEN d.LoyaltyClass_Fields[class_id][k] ELSE NULL
          [] k \in TransitColumns ->
               IF class_id \in DOMAIN d.TransitClass_Fields
               THEN d.TransitClass_Fields[class_id][k] ELSE NULL]

\* the instances of a template
PassesOfClass(d, class_id) ==
    { o \in DOMAIN d.Passes_Table : d.Passes_Table[o].class_id = class_id }

\* the child rows of a deleted class row
CascadeClassChildren(d, class_id) ==
    [d EXCEPT !.GenericClass_Fields = Drop(@, {class_id}),
              !.EventTicketClass_Fields = Drop(@, {class_id}),
              !.LoyaltyClass_Fields = Drop(@, {class_id}),
              !.TransitClass_Fields = Drop(@, {class_id})]

\* the child and array rows of deleted pass rows
CascadePassChildren(d, object_ids) ==
    [d EXCEPT !.EventTicket_Fields = Drop(@, object_ids),
              !.Generic_Fields = Drop(@, object_ids),
              !.Pass_Text_Modules = Drop(@, object_ids),
              !.Pass_Messages = Drop(@, object_ids)]

\* the ledger rows of a deleted class row
CascadeNotifications(d, class_id) ==
    [d EXCEPT !.Notifications_Table = SelectSeq(@, LAMBDA r : r.class_id # class_id)]

\* fk_passes_class_id without ON DELETE CASCADE taking effect: the instances stay
CascadePasses_Keep(d, class_id) == d

\* fk_passes_class_id ... ON DELETE CASCADE: the instances of a deleted class row
CascadePasses(d, class_id) ==
    LET gone == PassesOfClass(d, class_id) IN
    CascadePassChildren([d EXCEPT !.Passes_Table = Drop(@, gone)], gone)

\* DatabaseManager.delete_class
DeleteClassDb(d, class_id) ==
    IF class_id \notin DOMAIN d.Classes_Table
    THEN Done(d, "False")
    ELSE Done(CascadeNotifications(
                  CascadePasses(
                      CascadeClassChildren([d EXCEPT !.Classes_Table = Drop(@, {class_id})],
                                           class_id),
                      class_id),
                  class_id),
              "True")

\* pd.get(a, pd.get(b))
Get2(pd, a, b) == Get(pd, a, Get(pd, b, NULL))

\* the rows inserted into Pass_Text_Modules for a list of modules
TextModuleRows(object_id, text_modules) ==
    [idx \in 1..Len(text_modules) |->
        [object_id |-> object_id,
         module_id |-> Get(text_modules[idx], "id", NULL),
         header |-> Get(text_modules[idx], "header", NULL),
         body |-> Get(text_modules[idx], "body", NULL),
         display_order |-> idx - 1]]

\* the row inserted into Pass_Messages for one message
MessageRow(object_id, msg) ==
    LET interval == Get(msg, "displayInterval", EmptyDict) IN
    [object_id |-> object_id,
     message_id |-> Get(msg, "id", NULL),
     header |-> Get(msg, "header", NULL),
     body |-> Get(msg, "body", NULL),
     message_type |-> Get(msg, "messageType", NULL),
     start_date |-> Get(Get(interval, "start", EmptyDict), "date", Get(msg, "start_date", NULL)),
     end_date |-> Get(Get(interval, "end", EmptyDict), "date", Get(msg, "end_date", NULL))]

MessageRows(object_id, messages) ==
    [idx \in 1..Len(messages) |-> MessageRow(object_id, messages[idx])]

\* the scalar row create_pass inserts into EventTicket_Fields
CreateEventTicketRow(pd) ==
    LET etd == Get(pd, "event_ticket_data", pd) IN
    [ticket_holder_name |-> Get2(etd, "ticketHolderName", "ticket_holder_name"),
     confirmation_code |-> Get2(etd, "confirmationCode", "confirmation_code"),
     seat |-> Get2(etd, "seatNumber", "seat"),
     section |-> Get(etd, "section", NULL),
     gate |-> Get(etd, "gate", NULL)]

\* the scalar row create_pass inserts into Generic_Fields
CreateGenericRow(pd) ==
    LET gd == Get(pd, "generic_data", pd) IN
    [header_value |-> Get2(gd, "header_value", "header"),
     subheader_value |-> Get(gd, "subheader_value", NULL)]

\* DatabaseManager.create_pass; pass_data is a dict ({} for None) whose
\* textModulesData, text_modules and messages, when present, are lists
CreatePassDb(d, object_id, class_id, holder_name, holder_email, pd, status) ==
    IF class_id \notin DOMAIN d.Classes_Table
    THEN Done(d, "False")
    ELSE IF object_id \in DOMAIN d.Passes_Table
    THEN Done(d, "DatabaseError")
    ELSE
    LET class_type == d.Classes_Table[class_id].class_type
        core == [class_id |-> class_id, holder_name |-> holder_name,
                 holder_email |-> holder_email, status |-> status,
                 sync_status |-> "pending", last_synced_at |-> NULL]
        text_modules == Get(pd, "textModulesData", Get(pd, "text_modules", <<>>))
        messages == Get(pd, "messages", <<>>)
        scalar == IF class_type = "EventTicket" THEN "EventTicket_Fields" ELSE "Generic_Fields"
    IN  IF object_id \in DOMAIN d[scalar]
        THEN Done(d, "DatabaseError")
        ELSE Done([d EXCEPT
                     !.Passes_Table = Put(@, object_id, core),
                     ![scalar] = Put(@, object_id,
                                     IF class_type = "EventTicket"
                                     THEN CreateEventTicketRow(pd) ELSE CreateGenericRow(pd)),
                     !.Pass_Text_Modules =
                         SetRows(@, object_id,
                                 RowsOf(@, object_id) \o TextModuleRows(object_id, text_modules)),
                     !.Pass_Messages =
                         SetRows(@, object_id,
                                 RowsOf(@, object_id) \o MessageRows(object_id, messages))],
                  "True")

\* update_pass step 1: the core fields
UpdateCoreFields(d, object_id, kwargs) ==
    LET core_updates == DOMAIN kwargs \cap {"holder_name", "holder_email", "status",
                                            "sync_status", "last_synced_at"}
    IN  IF core_updates # {} /\ object_id \in DOMAIN d.Passes_Table
        THEN [d EXCEPT !.Passes_Table[object_id] =
                 [k \in DOMAIN @ |-> IF k \in core_updates THEN kwargs[k] ELSE @[k]]]
        ELSE d

\* update_pass step 2: INSERT ... ON DUPLICATE KEY UPDATE of the scalar row
UpsertScalarFields(d, object_id, class_type, pd) ==
    IF class_type = "EventTicket"
    THEN [d EXCEPT !.EventTicket_Fields = Put(@, object_id,
             [ticket_holder_name |-> Get2(pd, "ticket_holder_name", "ticketHolderName"),
              confirmation_code |-> Get2(pd, "confirmation_code", "confirmationCode"),
              seat |-> Get2(pd, "seat", "seatNumber"),
              section |-> Get(pd, "section", NULL),
              gate |-> Get(pd, "gate", NULL)])]
    ELSE [d EXCEPT !.Generic_Fields = Put(@, object_id,
             [header_value |-> Get2(pd, "header_value", "header"),
              subheader_value |-> Get(pd, "subheader_value", NULL)])]

\* the text-module update without its DELETE: the new rows are appended
ReplaceTextModules_Append(d, object_id, pd) ==
    IF "textModulesData" \in DOMAIN pd \/ "text_modules" \in DOMAIN pd
    THEN [d EXCEPT !.Pass_Text_Modules =
             SetRows(@, object_id,
                     RowsOf(@, object_id)
                     \o TextModuleRows(object_id,
                                       Get(pd, "textModulesData", Get(pd, "text_modules", <<>>))))]
    ELSE d

\* update_pass: "Update Text Modules Array"
ReplaceTextModules(d, object_id, pd) ==
    IF "textModulesData" \in DOMAIN pd \/ "text_modules" \in DOMAIN pd
    THEN [d EXCEPT !.Pass_Text_Modules =
             SetRows(@, object_id,
                     TextModuleRows(object_id,
                                    Get(pd, "textModulesData", Get(pd, "text_modules", <<>>))))]
    ELSE d

\* the message update without its DELETE: the new rows are appended
ReplaceMessages_Append(d, object_id, pd) ==
    IF "messages" \in DOMAIN pd
    THEN [d EXCEPT !.Pass_Messages =
             SetRows(@, object_id,
                     RowsOf(@, object_id) \o MessageRows(object_id, Get(pd, "messages", <<>>)))]
    ELSE d

\* update_pass: "Update Messages Array"
ReplaceMessages(d, object_id, pd) ==
    IF "messages" \in DOMAIN pd
    THEN [d EXCEPT !.Pass_Messages =
             SetRows(@, object_id, MessageRows(object_id, Get(pd, "messages", <<>>)))]
    ELSE d

\* DatabaseManager.update_pass; kwargs is the dict of keyword arguments
UpdatePassDb(d, object_id, kwargs) ==
    LET d1 == UpdateCoreFields(d, object_id, kwargs)
        pd == Get(kwargs, "pass_data", EmptyDict)
    IN  IF DOMAIN pd = {}
        THEN Done(d1, "True")
        ELSE IF object_id \notin DOMAIN d1.Passes_Table
        THEN Done(d1, "False")
        ELSE LET class_id == d1.Passes_Table[object_id].class_id
                 class_type == IF class_id \in DOMAIN d1.Classes_Table
                               THEN d1.Classes_Table[class_id].class_type ELSE "Generic"
             IN  Done(ReplaceMessages(
                          ReplaceTextModules(
                              UpsertScalarFields(d1, object_id, class_type, pd),
                              object_id, pd),
                          object_id, pd),
                      "True")

\* DatabaseManager.delete_pass
DeletePassDb(d, object_id) ==
    IF object_id \notin DOMAIN d.Passes_Table
    THEN Done(d, "False")
    ELSE Done(CascadePassChildren([d EXCEPT !.Passes_Table = Drop(@, {object_id})],
                                  {object_id}),
              "True")

\* a ledger that keeps only the latest record of an instance
CreateNotificationDb_Replace(d, class_id, object_id, status, message) ==
    Done([d EXCEPT !.Notifications_Table =
             Append(SelectSeq(@, LAMBDA r : r.object_id # object_id),
                    [class_id |-> class_id, object_id |-> object_id,
                     status |-> status, message |-> message])],
         "True")

\* DatabaseManager.create_notification
CreateNotificationDb(d, class_id, object_id, status, message) ==
    Done([d EXCEPT !.Notifications_Table =
             Append(@, [class_id |-> class_id, object_id |-> object_id,
                        status |-> status, message |-> message])],
         "True")

(***************************************************************************)
(* Store operations as requests                                            *)
(***************************************************************************)
\* the type of the n-th template of a store that propagations run on
TypeOfTemplate(n) == IF n % 2 = 1 THEN "EventTicket" ELSE "Generic"

\* the keyword arguments of a create_class call that sets every column of the type
FullClassArgs(class_type) ==
    [k \in { IF c = "header" THEN "header_text" ELSE c :
             c \in CommonColumns \cup ColumnsOfType(class_type) } |->
        IF k = "header_text" THEN ColumnValue("header") ELSE ColumnValue(k)]

ModuleNames == <<"m1", "m2", "m3">>
MessageNames == <<"g1", "g2", "g3">>

\* an element of textModulesData
Module(n) == [id |-> ModuleNames[n], header |-> "Info", body |-> "Doors open at 19:00"]

\* an element of messages: with a displayInterval, or with flat dates
Message(n) ==
    IF n % 2 = 1
    THEN [id |-> MessageNames[n], header |-> "Notice", body |-> "Gate changed",
          messageType |-> "TEXT",
          displayInterval |-> [start |-> [date |-> "2026-01-01T00:00:00Z"],
                               end |-> [date |-> "2026-01-02T00:00:00Z"]]]
    ELSE [id |-> MessageNames[n], header |-> "Notice", body |-> "Gate changed",
          messageType |-> "TEXT_AND_NOTIFY",
          start_date |-> "2026-02-01T00:00:00Z", end_date |-> "2026-02-02T00:00:00Z"]

ModuleList(n) == [k \in 1..n |-> Module(k)]
MessageList(n) == [k \in 1..n |-> Message(k)]

\* {**a, **b} for dicts without a common key
Merge(a, b) == [k \in DOMAIN a \cup DOMAIN b |-> IF k \in DOMAIN a THEN a[k] ELSE b[k]]

ScalarPart == [seat |-> "A1", header_value |-> "VIP"]
TextModuleParts == { [text_modules |-> ModuleList(MaxModules)] }
                   \cup { [textModulesData |-> ModuleList(n)] : n \in 0..MaxModules }
MessageParts == { [messages |-> MessageList(n)] : n \in 0..MaxModules }

\* the pass_data of a create_pass call that sets every part
FullPassData ==
    Merge(Merge(ScalarPart, [textModulesData |-> ModuleList(MaxModules)]),
          [messages |-> MessageList(MaxModules)])

\* the pass_data dicts of update_pass calls: one part alone, or all three
PassDatas == { EmptyDict, ScalarPart } \cup TextModuleParts \cup MessageParts
             \cup { FullPassData }

\* the keyword arguments of update_pass calls
UpdateKwargs == { [pass_data |-> pd] : pd \in PassDatas } \cup { [status |-> "Active"] }

NoOp == [op |-> "none"]

\* db.create_class(class_id, class_type, ...)
CreateClass(class_id, class_type) ==
    /\ LET r == CreateClassDb(db, class_id, class_type, FullClassArgs(class_type)) IN
       /\ db' = r.db
       /\ lastOp' = [op |-> "create_class", ret |-> r.ret]
    /\ UNCHANGED <<prop, pushLog, lk, calc, remote>>

\* db.delete_class(class_id)
DeleteClass(class_id) ==
    /\ LET r == DeleteClassDb(db, class_id) IN
       /\ db' = r.db
       /\ lastOp' = [op |-> "delete_class", class_id |-> class_id, ret |-> r.ret,
                     array_rows |-> \E o \in PassesOfClass(db, class_id) :
                                       /\ RowsOf(db.Pass_Text_Modules, o) # <<>>
                                       /\ RowsOf(db.Pass_Messages, o) # <<>>]
    /\ UNCHANGED <<prop, pushLog, lk, calc, remote>>

\* db.create_pass(object_id, class_id, holder_name, holder_email, pass_data)
CreatePass(object_id, class_id, pd) ==
    /\ LET r == CreatePassDb(db, object_id, class_id, "Ann", "ann@example.com", pd, "Active") IN
       /\ db' = r.db
       /\ lastOp' = [op |-> "create_pass", ret |-> r.ret]
    /\ UNCHANGED <<prop, pushLog, lk, calc, remote>>

\* db.update_pass(object_id, **kwargs)
UpdatePass(object_id, kwargs) ==
    /\ LET r == UpdatePassDb(db, object_id, kwargs) IN
       /\ db' = r.db
       /\ lastOp' = [op |-> "update_pass", object_id |-> object_id, kwargs |-> kwargs,
                     ret |-> r.ret,
                     prior |-> [text_modules |-> Len(RowsOf(db.Pass_Text_Modules, object_id)),
                                messages |-> Len(RowsOf(db.Pass_Messages, object_id))]]
    /\ UNCHANGED <<prop, pushLog, lk, calc, remote>>

\* db.delete_pass(object_id)
DeletePass(object_id) ==
    /\ LET r == DeletePassDb(db, object_id) IN
       /\ db' = r.db
       /\ lastOp' = [op |-> "delete_pass", ret |-> r.ret]
    /\ UNCHANGED <<prop, pushLog, lk, calc, remote>>

\* the rows a table holds for key k: <<row>> or <<>>
RowAt(t, k) == IF k \in DOMAIN t THEN <<t[k]>> ELSE <<>>

\* everything the store holds for template c
ClassFootprint(d, c) ==
    <<RowAt(d.Classes_Table, c), RowAt(d.GenericClass_Fields, c),
      RowAt(d.EventTicketClass_Fields, c), RowAt(d.LoyaltyClass_Fields, c),
      RowAt(d.TransitClass_Fields, c)>>

\* everything the store holds for instance o
PassFootprint(d, o) ==
    <<RowAt(d.Passes_Table, o), RowAt(d.EventTicket_Fields, o), RowAt(d.Generic_Fields, o),
      RowsOf(d.Pass_Text_Modules, o), RowsOf(d.Pass_Messages, o)>>

NoFootprint == <<<<>>, <<>>, <<>>, <<>>, <<>>>>

\* C5: after delete_class(T) has succeeded the store holds no template T, no
\* type-specific child row of T, no instance with class_id = T and no
\* type-specific, text-module or message row of an instance that belonged to
\* T; every other template and every other instance is as before.
DeleteClassCascades ==
    [][ (lastOp'.op = "delete_class" /\ lastOp'.ret = "True") =>
          LET T == lastOp'.class_id IN
          /\ ClassFootprint(db', T) = NoFootprint
          /\ PassesOfClass(db', T) = {}
          /\ \A o \in ObjectIds :
                IF o \in PassesOfClass(db, T)
                THEN PassFootprint(db', o) = NoFootprint
                ELSE PassFootprint(db', o) = PassFootprint(db, o)
          /\ \A c \in ClassIds \ {T} : ClassFootprint(db', c) = ClassFootprint(db, c)
      ]_vars

\* a template with an instance that had text-module and message rows has
\* been deleted while an instance of another template is still stored
DeletedClassHadInstanceRows ==
    /\ lastOp.op = "delete_class" /\ lastOp.ret = "True"
    /\ lastOp.array_rows
    /\ \E o \in DOMAIN db.Passes_Table : RowsOf(db.Pass_Text_Modules, o) # <<>>

\* the list an update supplies for the text modules
SuppliedTextModules(pd) == IF "textModulesData" \in DOMAIN pd THEN pd.textModulesData
                           ELSE pd.text_modules

\* C10: after update_pass on an instance, the text-module rows (the message
\* rows) of the instance are, when pass_data holds the key, one row per
\* element of the supplied list, in its order and with its values, and
\* nothing else; when pass_data does not hold the key, or there is no
\* pass_data, they are the rows the instance had before.
UpdatePassReplacesCollections ==
    [][ (/\ lastOp'.op = "update_pass"
         /\ lastOp'.ret = "True"
         /\ lastOp'.object_id \in DOMAIN db.Passes_Table) =>
          LET o == lastOp'.object_id
              pd == Get(lastOp'.kwargs, "pass_data", EmptyDict)
              tm == RowsOf(db'.Pass_Text_Modules, o)
              ms == RowsOf(db'.Pass_Messages, o)
          IN  /\ IF "textModulesData" \in DOMAIN pd \/ "text_modules" \in DOMAIN pd
                 THEN /\ Len(tm) = Len(SuppliedTextModules(pd))
                      /\ \A n \in 1..Len(tm) :
                            /\ tm[n].object_id = o
                            /\ tm[n].module_id = SuppliedTextModules(pd)[n].id
                            /\ tm[n].header = SuppliedTextModules(pd)[n].header
                            /\ tm[n].body = SuppliedTextModules(pd)[n].body
                            /\ tm[n].display_order = n - 1
                 ELSE tm = RowsOf(db.Pass_Text_Modules, o)
              /\ IF "messages" \in DOMAIN pd
                 THEN /\ Len(ms) = Len(pd.messages)
                      /\ \A n \in 1..Len(ms) :
                            /\ ms[n].object_id = o
                            /\ ms[n].message_id = pd.messages[n].id
                            /\ ms[n].header = pd.messages[n].header
                            /\ ms[n].body = pd.messages[n].body
                            /\ ms[n].message_type = pd.messages[n].messageType
                 ELSE ms = RowsOf(db.Pass_Messages, o)
      ]_vars

\* an update that supplied an empty text-module list and no messages key has
\* run on an instance that had text-module rows and message rows
EmptyListUpdateOnStoredRows ==
    /\ lastOp.op = "update_pass" /\ lastOp.ret = "True"
    /\ "pass_data" \in DOMAIN lastOp.kwargs
    /\ "textModulesData" \in DOMAIN lastOp.kwargs.pass_data
    /\ lastOp.kwargs.pass_data.textModulesData = <<>>
    /\ "messages" \notin DOMAIN lastOp.kwargs.pass_data
    /\ lastOp.prior.text_modules > 0
    /\ lastOp.prior.messages > 0
    /\ lastOp.object_id \in DOMAIN db.Passes_Table
    /\ RowsOf(db.Pass_Messages, lastOp.object_id) # <<>>

(***************************************************************************)
(* Propagation of a template update: propagate_class_update_to_passes      *)
(***************************************************************************)
FanOutIds == { ObjectId(n) : n \in 1..MaxFanOut }

\* the n with ObjectId(n) = object_id
IndexOf(object_id) == CHOOSE n \in 1..Len(Digits) : ObjectId(n) = object_id

\* DatabaseManager.get_passes_by_class: ORDER BY created_at DESC; instances
\* are created in the order of their ids, so the latest id comes first
GetPassesByClass(d, class_id) ==
    LET RECURSIVE Desc(_)
        Desc(R) ==
            IF R = {} THEN <<>>
            ELSE LET o == CHOOSE x \in R : \A y \in R : IndexOf(y) <= IndexOf(x)
                 IN  <<[object_id |-> o,
                        holder_name |-> d.Passes_Table[o].holder_name,
                        holder_email |-> d.Passes_Table[o].holder_email]>>
                     \o Desc(R \ {o})
    IN  Desc(PassesOfClass(d, class_id))

\* what the remote gateway does with one patch of an object
PushOutcomes == {"ok", "HttpError"}

NoException == [raised |-> FALSE, prefix |-> "", id |-> <<>>, details |-> ""]

\* WalletClient.update_pass_object: the ids are resolved again, the object is
\* patched; an HttpError is raised again as an Exception that names the
\* object_id argument
UpdatePassObject(object_id, class_id, class_type, outcome) ==
    LET full_object_id == PrepareIdsToTry(object_id)[1]
        full_class_id == PrepareIdsToTry(class_id)[1]
    IN  [resourceId |-> full_object_id, classId |-> full_class_id, class_type |-> class_type,
         exception |->
            IF outcome = "ok" THEN NoException
            ELSE [raised |-> TRUE, prefix |-> "Error updating pass object",
                  id |-> object_id, details |-> "backendError"]]

\* str(e)
Str(e) == [prefix |-> e.prefix, id |-> e.id, details |-> e.details]

SentMessage == [prefix |-> "Pass updated successfully via Google Wallet API",
                id |-> <<>>, details |-> ""]

\* the ledger record of a push that raised whatever it was
NotificationFor_AlwaysSent(e) == [status |-> "Sent", message |-> SentMessage]

\* the ledger record of one push: Sent, or Failed with str(e)
NotificationFor(e) ==
    IF e.raised THEN [status |-> "Failed", message |-> Str(e)]
    ELSE [status |-> "Sent", message |-> SentMessage]

\* a failure that is not counted
ResultAfter_FailureNotCounted(result, object_id, e) ==
    IF e.raised THEN result ELSE [result EXCEPT !.updated_count = @ + 1]

\* the result after one push
ResultAfter(result, object_id, e) ==
    IF e.raised
    THEN [result EXCEPT !.failed_count = @ + 1,
                        !.errors = Append(@, [prefix |-> "Failed to update pass",
                                              object_id |-> object_id, text |-> Str(e)])]
    ELSE [result EXCEPT !.updated_count = @ + 1]

\* a loop that a failed push ends
AfterPush_AbortOnFailure(i, n, e) == IF e.raised \/ i = n THEN "returned" ELSE "loop"

\* the loop goes on to the next instance whatever the push did, and the
\* function returns after the last one
AfterPush(i, n, e) == IF i = n THEN "returned" ELSE "loop"

PropIdle == [pc |-> "idle", inv |-> 0, class_id |-> <<>>, class_type |-> "", passes |-> <<>>,
             i |-> 0, base |-> 0,
             result |-> [updated_count |-> 0, failed_count |-> 0, total_count |-> 0,
                         errors |-> <<>>]]

\* propagate_class_update_to_passes(class_id, updated_class, ...) up to the loop
PropagateBegin(class_id) ==
    /\ prop.pc \in {"idle", "returned"}
    /\ prop.inv < MaxInvocations
    /\ class_id \in DOMAIN db.Classes_Table
    /\ LET passes == GetPassesByClass(db, class_id) IN
       prop' = [pc |-> IF passes = <<>> THEN "returned" ELSE "loop",
                inv |-> prop.inv + 1,
                class_id |-> class_id,
                class_type |-> db.Classes_Table[class_id].class_type,
                passes |-> passes,
                i |-> 1,
                base |-> Len(db.Notifications_Table),
                result |-> [updated_count |-> 0, failed_count |-> 0,
                            total_count |-> Len(passes), errors |-> <<>>]]
    /\ UNCHANGED <<db, lastOp, pushLog, lk, calc, remote, reqs, handlers>>

\* one iteration of the loop: the push, its ledger record, the counters;
\* the INSERT into the ledger goes through
PushPass(outcome) ==
    /\ prop.pc = "loop"
    /\ LET object_id == prop.passes[prop.i].object_id
           full_object_id == PrepareIdsToTry(object_id)[1]
           full_class_id == PrepareIdsToTry(prop.class_id)[1]
           call == UpdatePassObject(full_object_id, full_class_id, prop.class_type, outcome)
           note == NotificationFor(call.exception)
       IN  /\ pushLog' = Append(pushLog, [inv |-> prop.inv, object_id |-> object_id,
                                          resourceId |-> call.resourceId,
                                          classId |-> call.classId,
                                          exception |-> call.exception])
           /\ db' = CreateNotificationDb(db, prop.class_id, object_id,
                                         note.status, note.message).db
           /\ prop' = [prop EXCEPT
                         !.result = ResultAfter(@, object_id, call.exception),
                         !.i = @ + 1,
                         !.pc = AfterPush(prop.i, Len(prop.passes), call.exception)]
    /\ UNCHANGED <<lastOp, lk, calc, remote, reqs, handlers>>

\* the pushes of invocation inv for instance o, as positions of pushLog
AttemptsOf(inv, o) ==
    { k \in DOMAIN pushLog : pushLog[k].inv = inv /\ pushLog[k].object_id = o }

\* the records the ledger got since the invocation began
NewRecords == SubSeq(db.Notifications_Table, prop.base + 1, Len(db.Notifications_Table))

NewRecordsOf(o) == { k \in DOMAIN NewRecords : NewRecords[k].object_id = o }

FailedInstances ==
    { o \in FanOutIds : \E k \in AttemptsOf(prop.inv, o) : pushLog[k].exception.raised }

ParentFields == {"class_type"} \cup CommonColumns

\* the keyword argument that carries a child column
KwargOfColumn(c) == IF c = "header" THEN "header_text" ELSE c

\* UPDATE Classes_Table SET <the parent fields among kwargs> WHERE class_id = ...
UpdateParent(d, class_id, kwargs) ==
    IF DOMAIN kwargs \cap ParentFields = {} \/ class_id \notin DOMAIN d.Classes_Table
    THEN d
    ELSE [d EXCEPT !.Classes_Table[class_id] =
             [k \in DOMAIN @ |-> IF k \in DOMAIN kwargs THEN kwargs[k] ELSE @[k]]]

\* the class_type that routes the child statement: the keyword argument,
\* else the stored one, else 'Generic'
RoutedClassType(d, class_id, kwargs) ==
    IF Get(kwargs, "class_type", NULL) \notin {NULL, ""} THEN kwargs.class_type
    ELSE IF class_id \in DOMAIN d.Classes_Table THEN d.Classes_Table[class_id].class_type
    ELSE "Generic"

\* child_fields: the columns of the routed type whose keyword argument is
\* there and is not None
ChildFields(class_type, kwargs) ==
    [c \in { c \in ColumnsOfType(class_type) : Get(kwargs, KwargOfColumn(c), NULL) # NULL } |->
        kwargs[KwargOfColumn(c)]]

\* a child statement that writes also the fields given as None
UpdateChild_NoneWritten(d, class_id, class_type, kwargs) ==
    LET child == ChildTableOf(class_type)
        given == { c \in ColumnsOfType(class_type) : KwargOfColumn(c) \in DOMAIN kwargs }
    IN  IF child = "none" \/ given = {} THEN d
        ELSE [d EXCEPT ![child] =
                 Put(@, class_id,
                     [c \in ColumnsOfType(class_type) |->
                        IF c \in given THEN kwargs[KwargOfColumn(c)]
                        ELSE IF class_id \in DOMAIN @ THEN @[class_id][c] ELSE NULL])]

\* the child statement: UPDATE of the given fields when the child row
\* exists, else INSERT of a row with the given fields
UpdateChild(d, class_id, class_type, kwargs) ==
    LET child == ChildTableOf(class_type)
        child_fields == ChildFields(class_type, kwargs)
    IN  IF child = "none" \/ DOMAIN child_fields = {} THEN d
        ELSE IF class_id \in DOMAIN d[child]
        THEN [d EXCEPT ![child][class_id] =
                 [c \in DOMAIN @ |-> IF c \in DOMAIN child_fields THEN child_fields[c] ELSE @[c]]]
        ELSE [d EXCEPT ![child] =
                 Put(@, class_id, [c \in ColumnsOfType(class_type) |-> Get(child_fields, c, NULL)])]

\* the store after each statement of update_class
UpdateClassSteps(d, class_id, kwargs) ==
    LET d1 == UpdateParent(d, class_id, kwargs)
    IN  <<d1, UpdateChild(d1, class_id, RoutedClassType(d1, class_id, kwargs), kwargs)>>

\* DatabaseManager.update_class on a class_id that has a row
UpdateClassDb(d, class_id, kwargs) ==
    Done(UpdateClassSteps(d, class_id, kwargs)[2], "True")

\* the keyword arguments of update_class calls; None is NULL
ClassUpdates ==
    { [issuer_name |-> "Acme 2"],
      [base_color |-> NULL],
      [venue_name |-> "Hall B"],
      [card_title |-> NULL],
      [header_text |-> "Welcome", card_title |-> "Gold member"],
      [program_name |-> "Rewards 2", issuer_name |-> "Acme 2"],
      [class_type |-> "EventTicket", event_name |-> "Gala"],
      [class_type |-> "Generic"] }

\* db.update_class(class_id, **kwargs) after the endpoint found the class
UpdateClass(class_id, kwargs) ==
    /\ class_id \in DOMAIN db.Classes_Table
    /\ LET r == UpdateClassDb(db, class_id, kwargs) IN
       /\ db' = r.db
       /\ lastOp' = [op |-> "update_class", class_id |-> class_id, kwargs |-> kwargs,
                     ret |-> r.ret]
    /\ UNCHANGED <<prop, pushLog, lk, calc, remote>>

\* the child tables that hold a row of template c
ChildTablesWith(d, c) == { t \in ClassChildTables : c \in DOMAIN d[t] }

\* C19: every stored template has exactly one type-specific child record,
\* and it is in the child table of the template's class_type.
OneChildRecordOfOwnType ==
    \A c \in DOMAIN db.Classes_Table :
       ChildTablesWith(db, c) = { ChildTableOf(db.Classes_Table[c].class_type) }

\* C20 as stated: after update_class(T, F) has succeeded on a stored
\* template, get_class(T) has the value of F in every field F supplies and
\* the prior value in every other field.
UpdateClassWritesSuppliedFields ==
    [][ (lastOp'.op = "update_class" /\ lastOp'.ret = "True") =>
          LET T == lastOp'.class_id
              F == lastOp'.kwargs
              before == JoinedClassRow(db, T)
              after == JoinedClassRow(db', T)
          IN  \A col \in DOMAIN after \ {"class_id"} :
                 after[col] = IF KwargOfColumn(col) \in DOMAIN F THEN F[KwargOfColumn(col)]
                              ELSE before[col]
      ]_vars

\* the fields of F that update_class applies: the parent fields, and the
\* fields of the resulting class_type whose value is not None
AppliedFields(d, T, F) ==
    { col \in ParentFields : col \in DOMAIN F }
    \cup DOMAIN ChildFields(RoutedClassType(UpdateParent(d, T, F), T, F), F)

\* C20 amended: after update_class(T, F) has succeeded on a stored template,
\* get_class(T) has the value of F in every parent field F supplies and in
\* every field of the template's resulting class_type that F supplies with a
\* value other than None, and the prior value in every other field.
UpdateClassWritesAppliedFields ==
    [][ (lastOp'.op = "update_class" /\ lastOp'.ret = "True") =>
          LET T == lastOp'.class_id
              F == lastOp'.kwargs
              before == JoinedClassRow(db, T)
              after == JoinedClassRow(db', T)
          IN  \A col \in DOMAIN after \ {"class_id"} :
                 after[col] = IF col \in AppliedFields(db, T, F) THEN F[KwargOfColumn(col)]
                              ELSE before[col]
      ]_vars

\* an EventTicket template whose venue_name was set got venue_name 'Hall B'
\* by an update that supplied nothing else
VenueNameUpdated ==
    /\ lastOp.op = "update_class" /\ lastOp.ret = "True"
    /\ lastOp.kwargs = [venue_name |-> "Hall B"]
    /\ lastOp.class_id \in DOMAIN db.EventTicketClass_Fields
    /\ db.EventTicketClass_Fields[lastOp.class_id].venue_name = "Hall B"
    /\ db.EventTicketClass_Fields[lastOp.class_id].event_name # NULL
    /\ db.Classes_Table[lastOp.class_id].class_type = "EventTicket"

(***************************************************************************)
(* Transactions: DatabaseManager.get_connection around the store writes    *)
(***************************************************************************)
\* a failed transaction whose statements stay in the store
Rollback_Keep(before, partial) == partial

\* conn.rollback(), or the connection closed without a commit
Rollback(before, partial) == before

\* a write under get_connection. steps[k] is the store the k-th group of
\* statements runs on; fault = 0 when every statement succeeds, fault = k
\* when a statement of the k-th group fails, which ends the write with the
\* Exception of get_connection
InTransaction(d, steps, fault, done) ==
    IF fault = 0 THEN done
    ELSE Done(Rollback(d, steps[fault]), "DatabaseError")

\* create_class: the parent INSERT, then the child INSERT
CreateClassSteps(d, class_id, class_type, kw) ==
    LET parent == [class_type |-> class_type,
                   issuer_name |-> Get(kw, "issuer_name", NULL),
                   base_color |-> Get(kw, "base_color", NULL),
                   logo_url |-> Get(kw, "logo_url", NULL),
                   hero_image_url |-> Get(kw, "hero_image_url", NULL)]
    IN  IF class_id \in DOMAIN d.Classes_Table THEN <<d>>
        ELSE IF ChildTableOf(class_type) = "none" THEN <<d>>
        ELSE <<d, [d EXCEPT !.Classes_Table = Put(@, class_id, parent)]>>

\* create_pass: the core INSERT, the scalar INSERT, the text-module INSERTs,
\* then the message INSERTs
CreatePassSteps(d, object_id, class_id, holder_name, holder_email, pd, status) ==
    IF class_id \notin DOMAIN d.Classes_Table THEN <<>>
    ELSE IF object_id \in DOMAIN d.Passes_Table THEN <<d>>
    ELSE
    LET class_type == d.Classes_Table[class_id].class_type
        scalar == IF class_type = "EventTicket" THEN "EventTicket_Fields" ELSE "Generic_Fields"
        d1 == [d EXCEPT !.Passes_Table =
                  Put(@, object_id,
                      [class_id |-> class_id, holder_name |-> holder_name,
                       holder_email |-> holder_email, status |-> status,
                       sync_status |-> "pending", last_synced_at |-> NULL])]
        d2 == [d1 EXCEPT ![scalar] =
                  Put(@, object_id, IF class_type = "EventTicket"
                                    THEN CreateEventTicketRow(pd) ELSE CreateGenericRow(pd))]
        d3 == [d2 EXCEPT !.Pass_Text_Modules =
                  SetRows(@, object_id,
                          RowsOf(@, object_id)
                          \o TextModuleRows(object_id,
                                 Get(pd, "textModulesData", Get(pd, "text_modules", <<>>))))]
    IN  <<d, d1, d2, d3>>

\* update_pass: the core UPDATE, the scalar upsert, the DELETE and the
\* INSERTs of the text modules, then the DELETE and the INSERTs of the messages
UpdatePassSteps(d, object_id, kwargs) ==
    LET d1 == UpdateCoreFields(d, object_id, kwargs)
        pd == Get(kwargs, "pass_data", EmptyDict)
    IN  IF DOMAIN pd = {} \/ object_id \notin DOMAIN d1.Passes_Table
        THEN <<d>>
        ELSE LET class_id == d1.Passes_Table[object_id].class_id
                 class_type == IF class_id \in DOMAIN d1.Classes_Table
                               THEN d1.Classes_Table[class_id].class_type ELSE "Generic"
                 d2 == UpsertScalarFields(d1, object_id, class_type, pd)
                 d3 == ReplaceTextModules(d2, object_id, pd)
             IN  <<d, d1, d2,
                   IF "textModulesData" \in DOMAIN pd \/ "text_modules" \in DOMAIN pd
                   THEN [d2 EXCEPT !.Pass_Text_Modules = Drop(@, {object_id})] ELSE d2,
                   d3,
                   IF "messages" \in DOMAIN pd
                   THEN [d3 EXCEPT !.Pass_Messages = Drop(@, {object_id})] ELSE d3>>

\* the record of a write: the fault, what the write returned or raised, and
\* whether statements had changed the store when the fault struck
WriteRecord(op, d, steps, fault, r) ==
    [op |-> op, fault |-> fault, ret |-> r.ret,
     dirty |-> fault > 0 /\ steps[fault] # d]

\* db.create_class(class_id, class_type, ...) with a fault
CreateClassTx(class_id, class_type, fault) ==
    /\ LET kw == FullClassArgs(class_type)
           steps == CreateClassSteps(db, class_id, class_type, kw)
           r == InTransaction(db, steps, fault, CreateClassDb(db, class_id, class_type, kw))
       IN  /\ fault \in 0..Len(steps)
           /\ db' = r.db
           /\ lastOp' = WriteRecord("create_class", db, steps, fault, r)
    /\ UNCHANGED <<prop, pushLog, lk, calc, remote>>

\* db.update_class(class_id, **kwargs) with a fault
UpdateClassTx(class_id, kwargs, fault) ==
    /\ class_id \in DOMAIN db.Classes_Table
    /\ LET steps == UpdateClassSteps(db, class_id, kwargs)
           r == InTransaction(db, <<db, steps[1]>>, fault, UpdateClassDb(db, class_id, kwargs))
       IN  /\ fault \in 0..Len(steps)
           /\ db' = r.db
           /\ lastOp' = WriteRecord("update_class", db, <<db, steps[1]>>, fault, r)
    /\ UNCHANGED <<prop, pushLog, lk, calc, remote>>

\* db.create_pass(object_id, class_id, ...) with a fault
CreatePassTx(object_id, class_id, pd, fault) ==
    /\ LET steps == CreatePassSteps(db, object_id, class_id, "Ann", "ann@example.com",
                                    pd, "Active")
           r == InTransaction(db, steps, fault,
                              CreatePassDb(db, object_id, class_id, "Ann", "ann@example.com",
                                           pd, "Active"))
       IN  /\ fault \in 0..Len(steps)
           /\ db' = r.db
           /\ lastOp' = WriteRecord("create_pass", db, steps, fault, r)
    /\ UNCHANGED <<prop, pushLog, lk, calc, remote>>

\* db.update_pass(object_id, **kwargs) with a fault
UpdatePassTx(object_id, kwargs, fault) ==
    /\ LET steps == UpdatePassSteps(db, object_id, kwargs)
           r == InTransaction(db, steps, fault, UpdatePassDb(db, object_id, kwargs))
       IN  /\ fault \in 0..Len(steps)
           /\ db' = r.db
           /\ lastOp' = WriteRecord("update_pass", db, steps, fault, r)
    /\ UNCHANGED <<prop, pushLog, lk, calc, remote>>

TransactionalWrites == {"create_class", "update_class", "create_pass", "update_pass"}

\* C15: a write (create_class, update_class, create_pass, update_pass) in
\* which a statement fails leaves the store exactly as it was before the
\* write, and ends with the store-level error.
FailedWriteLeavesStoreUnchanged ==
    [][(lastOp'.op \in TransactionalWrites /\ lastOp'.fault > 0)
          => (db' = db /\ lastOp'.ret = "DatabaseError")]_vars

\* each of the four writes has failed after statements of it had changed rows
FailedAfterPartialWrite(op) ==
    /\ lastOp.op = op
    /\ lastOp.fault > 0
    /\ lastOp.dirty
    /\ lastOp.ret = "DatabaseError"

UpdatePassFailedAfterPartialWrite == FailedAfterPartialWrite("update_pass")

(***************************************************************************)
(* Remote gateway: the template upsert WalletClient.create_pass_class      *)
(***************************************************************************)
\* what the gateway does with a request of an upsert: nothing goes wrong,
\* the insert fails with a status other than 409, the patch fails
UpsertFaults == {"none", "insert", "patch"}

\* the reviewStatus that create_pass_class sends
SanitizeReviewStatus(class_data) ==
    LET review_status == Get(class_data, "reviewStatus", NULL) IN
    IF review_status \in {"UNDER_REVIEW", "DRAFT", "APPROVED"} THEN class_data
    ELSE Merge([reviewStatus |-> "UNDER_REVIEW"], class_data)

\* resource.patch: the keys of the body replace those of the stored document
GatewayPatch(stored, body) ==
    [k \in DOMAIN stored \cup DOMAIN body |-> IF k \in DOMAIN body THEN body[k] ELSE stored[k]]

\* a conflict that is answered by leaving the remote copy as it is
OnConflict_Keep(classes, class_data) == classes

\* the insert was answered with 409: the document is patched
OnConflict(classes, class_data) ==
    Put(classes, class_data.id, GatewayPatch(classes[class_data.id], class_data))

\* WalletClient.create_pass_class: insert, and patch when the insert conflicts
CreatePassClass(classes, class_data, class_type, fault) ==
    LET body == SanitizeReviewStatus(class_data) IN
    IF fault = "insert"
    THEN [classes |-> classes, calls |-> <<"class.insert">>,
          exception |-> [raised |-> TRUE, prefix |-> "Error creating pass class",
                         id |-> body.id, details |-> "backendError"]]
    ELSE IF body.id \notin DOMAIN classes
    THEN [classes |-> Put(classes, body.id, body), calls |-> <<"class.insert">>,
          exception |-> NoException]
    ELSE IF fault = "patch"
    THEN [classes |-> classes, calls |-> <<"class.insert", "class.patch">>,
          exception |-> [raised |-> TRUE, prefix |-> "Error updating existing class",
                         id |-> body.id, details |-> "backendError"]]
    ELSE [classes |-> OnConflict(classes, body), calls |-> <<"class.insert", "class.patch">>,
          exception |-> NoException]

\* the documents the gateway may hold under the id of a template before an
\* upsert: none, the one synthesized from another version of the row, one
\* that was made elsewhere and has a key the synthesized ones have not
RemoteCopies(row) ==
    LET doc == BuildClassJson(row)
        older == BuildClassJson([row EXCEPT !.issuer_name = "Acme Ltd"])
    IN  { EmptyTable,
          Put(EmptyTable, doc.id, older),
          Put(EmptyTable, doc.id, Merge([messages |-> <<"Welcome">>], older)) }

\* the stored rows whose documents are upserted
UpsertRows ==
    { ClassRow(ClassId(n), t, p \cup ColumnsOfType(t)) :
        n \in 1..MaxClasses, t \in ClassTypes, p \in {CommonColumns, {}} }

\* one upsert of the document of a row, and the same upsert once more
Upsert(row, before, fault) ==
    /\ calc.fn = "none"
    /\ LET doc == BuildClassJson(row)
           once == CreatePassClass(before, doc, row.class_type, fault)
           twice == CreatePassClass(once.classes, doc, row.class_type, "none")
       IN  /\ calc' = [fn |-> "create_pass_class", doc |-> doc, before |-> before,
                       once |-> once, twice |-> twice]
           /\ remote' = [remote EXCEPT !.classes = once.classes]
    /\ UNCHANGED <<db, lastOp, prop, pushLog, lk, reqs, handlers>>

\* C14: an upsert that raised nothing leaves the gateway holding, under the
\* id of the document, every key of the supplied document with the supplied
\* value, whether or not the gateway held a copy before; the same upsert
\* once more leaves the gateway as the first one left it.
UpsertHoldsDocumentAndIsIdempotent ==
    (calc.fn = "create_pass_class" /\ ~calc.once.exception.raised) =>
       /\ calc.doc.id \in DOMAIN remote.classes
       /\ \A k \in DOMAIN calc.doc : remote.classes[calc.doc.id][k] = calc.doc[k]
       /\ ~calc.twice.exception.raised
       /\ calc.twice.classes = calc.once.classes

\* an upsert met a remote copy with other values and a key of its own, and
\* patched it
UpsertPatchedForeignCopy ==
    /\ calc.fn = "create_pass_class"
    /\ ~calc.once.exception.raised
    /\ calc.once.calls = <<"class.insert", "class.patch">>
    /\ calc.doc.id \in DOMAIN calc.before
    /\ "messages" \in DOMAIN calc.before[calc.doc.id]
    /\ calc.before[calc.doc.id].hexBackgroundColor = calc.doc.hexBackgroundColor
    /\ remote.classes[calc.doc.id] # calc.before[calc.doc.id]

(***************************************************************************)
(* Endpoints: PUT /classes/{class_id} and PUT /passes/{object_id}          *)
(***************************************************************************)
NoErrorText == Str(NoException)

\* a MessageResponse, or the response made of an HTTPException: the literal
\* parts of its message, the str(e) put into it, the failed count put into it
Response(status, success, texts, error, failed_count) ==
    [status |-> status, success |-> success, texts |-> texts, error |-> error,
     failed_count |-> failed_count]

\* an endpoint that goes on after a failed write as after a successful one
StoreWriteAborts_Never(r) == FALSE

\* the Exception of a failed write leaves the try block of the endpoint
StoreWriteAborts(r) == r.ret = "DatabaseError"

\* a failed sync answered as a failed request
SyncFailedResponse_Error(e) ==
    Response(500, FALSE, {"Google Wallet sync failed:"}, Str(e), 0)

\* update_class: "Google Wallet sync failed, but local DB update succeeded"
SyncFailedResponse(e) ==
    Response(200, TRUE, {"Class updated locally.", "Google Wallet sync failed:"}, Str(e), 0)

\* a response of the branch without a sync that tells the reason
LocalOnlyResponse_WithReason(reason) ==
    Response(200, TRUE, {"Class", "updated locally only (no wallet sync).", reason},
             NoErrorText, 0)

\* update_class: the response of the branch without a sync
LocalOnlyResponse(reason) ==
    Response(200, TRUE, {"Class", "updated locally only (no wallet sync)."}, NoErrorText, 0)

\* update_class: the response after the propagation
PropagatedResponse(result) ==
    IF result.failed_count > 0
    THEN Response(200, TRUE, {"Class updated!", "Notification sent to", "users.", "failed."},
                  NoErrorText, result.failed_count)
    ELSE Response(200, TRUE, {"Class updated!", "Notification sent to", "users."}, NoErrorText, 0)

\* propagate_class_update_to_passes as one step: every instance of the
\* template is pushed, outcomes[o] being what the gateway does with the push
\* of o, a ledger record is written for each, and the result is counted
PropagateAll(d, class_id, class_type, outcomes) ==
    LET passes == GetPassesByClass(d, class_id)
        RECURSIVE Loop(_, _)
        Loop(i, acc) ==
            IF i > Len(passes) THEN acc
            ELSE LET object_id == passes[i].object_id
                     call == UpdatePassObject(PrepareIdsToTry(object_id)[1],
                                              PrepareIdsToTry(class_id)[1],
                                              class_type, outcomes[object_id])
                     note == NotificationFor(call.exception)
                 IN  Loop(i + 1,
                          [db |-> CreateNotificationDb(acc.db, class_id, object_id,
                                                       note.status, note.message).db,
                           result |-> ResultAfter(acc.result, object_id, call.exception),
                           calls |-> Append(acc.calls, "object.patch")])
    IN  Loop(1, [db |-> d,
                 result |-> [updated_count |-> 0, failed_count |-> 0,
                             total_count |-> Len(passes), errors |-> <<>>],
                 calls |-> <<>>])

\* the fields a ClassUpdate body sets
EndpointClassUpdates ==
    { EmptyDict, [issuer_name |-> "Acme 2"], [venue_name |-> "Hall B", header_text |-> "Welcome"] }

\* the fields a PassUpdate body sets
EndpointPassUpdates == { EmptyDict, [status |-> "Expired"], [pass_data |-> ScalarPart] }

\* what a request did: the branch it took, its response, its remote calls,
\* the exception a remote call raised, the reason it logged
Handled(op, id, kwargs, fault, branch, response, calls, exception, reason) ==
    [op |-> op, id |-> id, kwargs |-> kwargs, fault |-> fault, branch |-> branch,
     response |-> response, calls |-> calls, exception |-> exception, reason |-> reason]

\* a handler that goes on to the fan-out after a failed upsert
AfterFailedUpsert_Pushed(written, up, p) == [db |-> p.db, calls |-> up.calls \o p.calls]

\* update_class: the exception of create_pass_class leaves the try block
\* before propagate_class_update_to_passes: the store stays as written, the
\* remote calls are those of the upsert
AfterFailedUpsert(written, up, p) == [db |-> written, calls |-> up.calls]

\* PUT /classes/{class_id}
UpdateClassEndpoint(class_id, kwargs, fault, upsert_fault, outcomes) ==
    LET op == "update_class_endpoint"
        steps == UpdateClassSteps(db, class_id, kwargs)
        r == InTransaction(db, <<db, steps[1]>>, fault, UpdateClassDb(db, class_id, kwargs))
        updated_class == JoinedClassRow(r.db, class_id)
        class_json == BuildClassJson(updated_class)
        up == CreatePassClass(remote.classes, class_json, updated_class.class_type, upsert_fault)
        p == PropagateAll(r.db, class_id, updated_class.class_type, outcomes)
        reason == IF ~remote.available THEN "WalletClient not available"
                  ELSE "No class_json found"
    IN
    /\ UNCHANGED <<prop, pushLog, lk, calc>>
    /\ IF class_id \notin DOMAIN db.Classes_Table
       THEN /\ lastOp' = Handled(op, class_id, kwargs, 0, "not_found",
                                 Response(404, FALSE, {"Class", "not found"}, NoErrorText, 0),
                                 <<>>, NoException, "")
            /\ UNCHANGED <<db, remote>>
       ELSE IF DOMAIN kwargs = {}
       THEN /\ lastOp' = Handled(op, class_id, kwargs, 0, "no_fields",
                                 Response(400, FALSE, {"No fields to update"}, NoErrorText, 0),
                                 <<>>, NoException, "")
            /\ UNCHANGED <<db, remote>>
       ELSE IF StoreWriteAborts(r)
       THEN /\ lastOp' = Handled(op, class_id, kwargs, fault, "store_error",
                                 Response(500, FALSE, {"Database error:"}, NoErrorText, 0),
                                 <<>>, NoException, "")
            /\ db' = r.db
            /\ UNCHANGED remote
       ELSE IF remote.available /\ DOMAIN class_json # {}
       THEN IF up.exception.raised
            THEN /\ lastOp' = Handled(op, class_id, kwargs, fault, "sync_failed",
                                      SyncFailedResponse(up.exception),
                                      AfterFailedUpsert(r.db, up, p).calls, up.exception, "")
                 /\ db' = AfterFailedUpsert(r.db, up, p).db
                 /\ UNCHANGED remote
            ELSE /\ lastOp' = Handled(op, class_id, kwargs, fault, "synced",
                                      PropagatedResponse(p.result),
                                      up.calls \o p.calls, NoException, "")
                 /\ db' = p.db
                 /\ remote' = [remote EXCEPT !.classes = up.classes]
       ELSE /\ lastOp' = Handled(op, class_id, kwargs, fault, "local_only",
                                 LocalOnlyResponse(reason), <<>>, NoException, reason)
            /\ db' = r.db
            /\ UNCHANGED remote

\* PUT /passes/{object_id}
UpdatePassEndpoint(object_id, kwargs, fault, sync_to_google, outcome) ==
    LET op == "update_pass_endpoint"
        r == InTransaction(db, UpdatePassSteps(db, object_id, kwargs), fault,
                           UpdatePassDb(db, object_id, kwargs))
        class_id == r.db.Passes_Table[object_id].class_id
        call == UpdatePassObject(object_id, class_id,
                                 r.db.Classes_Table[class_id].class_type, outcome)
        updated == {"Pass", "updated successfully."}
    IN
    /\ UNCHANGED <<prop, pushLog, lk, calc, remote>>
    /\ IF object_id \notin DOMAIN db.Passes_Table
       THEN /\ lastOp' = Handled(op, object_id, kwargs, 0, "not_found",
                                 Response(404, FALSE, {"Pass", "not found"}, NoErrorText, 0),
                                 <<>>, NoException, "")
            /\ UNCHANGED db
       ELSE IF DOMAIN kwargs = {}
       THEN /\ lastOp' = Handled(op, object_id, kwargs, 0, "no_fields",
                                 Response(400, FALSE, {"No fields to update"}, NoErrorText, 0),
                                 <<>>, NoException, "")
            /\ UNCHANGED db
       ELSE IF StoreWriteAborts(r)
       THEN /\ lastOp' = Handled(op, object_id, kwargs, fault, "store_error",
                                 Response(500, FALSE, {"Database error:"}, NoErrorText, 0),
                                 <<>>, NoException, "")
            /\ db' = r.db
       ELSE /\ db' = r.db
            /\ lastOp' =
                 IF ~sync_to_google
                 THEN Handled(op, object_id, kwargs, fault, "no_sync",
                              Response(200, TRUE, updated, NoErrorText, 0), <<>>, NoException, "")
                 ELSE IF ~remote.available
                 THEN Handled(op, object_id, kwargs, fault, "local_only",
                              Response(200, TRUE,
                                       updated \cup {"Google Wallet sync disabled (Check server logs)."},
                                       NoErrorText, 0),
                              <<>>, NoException, "")
                 ELSE IF call.exception.raised
                 THEN Handled(op, object_id, kwargs, fault, "sync_failed",
                              Response(200, TRUE, updated \cup {"Google Wallet sync failed:"},
                                       Str(call.exception), 0),
                              <<"object.patch">>, call.exception, "")
                 ELSE Handled(op, object_id, kwargs, fault, "synced",
                              Response(200, TRUE, updated \cup {"Synced to Google Wallet."},
                                       NoErrorText, 0),
                              <<"object.patch">>, NoException, "")

\* C11: when the store write of a template update fails, the endpoint
\* answers with a failure, the store (template and ledger) is as it was, and
\* no remote call is made.
StoreFailureFailsTemplateUpdate ==
    [][(lastOp'.op = "update_class_endpoint" /\ lastOp'.fault > 0)
          => /\ lastOp'.response.status = 500
             /\ ~lastOp'.response.success
             /\ db' = db
             /\ lastOp'.calls = <<>>
             /\ remote' = remote]_vars

\* the write of a template with instances failed at its second statement
\* while a wallet client was there to call
TemplateUpdateFailedInStore ==
    /\ lastOp.op = "update_class_endpoint"
    /\ lastOp.branch = "store_error"
    /\ lastOp.fault = 2
    /\ remote.available
    /\ PassesOfClass(db, lastOp.id) # {}

\* the store after the write of a request
WrittenStore(d, op, id, kwargs) ==
    IF op = "update_class_endpoint" THEN UpdateClassDb(d, id, kwargs).db
    ELSE UpdatePassDb(d, id, kwargs).db

\* C12: when the store write of a template update or of an instance update
\* is committed and the remote call of the sync then raises, the response is
\* a success that carries str(e) of the remote error as a warning, and the
\* store holds the written values.
RemoteFailureIsWarning ==
    [][(/\ lastOp'.op \in {"update_class_endpoint", "update_pass_endpoint"}
        /\ lastOp'.exception.raised)
          => /\ lastOp'.response.status = 200
             /\ lastOp'.response.success
             /\ "Google Wallet sync failed:" \in lastOp'.response.texts
             /\ lastOp'.response.error = Str(lastOp'.exception)
             /\ db' = WrittenStore(db, lastOp'.op, lastOp'.id, lastOp'.kwargs)]_vars

\* a template update patched a remote copy in vain after its fields were stored
TemplateStoredAndPatchFailed ==
    /\ lastOp.op = "update_class_endpoint"
    /\ lastOp.branch = "sync_failed"
    /\ lastOp.calls = <<"class.insert", "class.patch">>
    /\ lastOp.kwargs = [issuer_name |-> "Acme 2"]
    /\ db.Classes_Table[lastOp.id].issuer_name = "Acme 2"

LocalOnlyReasons == {"WalletClient not available", "No class_json found"}

\* C13 as stated: a template update without a wallet client, or whose
\* re-read template has no document, makes no remote call, writes no ledger
\* record, reports success, and its response carries the reason.
LocalOnlyResponseCarriesReason ==
    [][(lastOp'.op = "update_class_endpoint" /\ lastOp'.branch = "local_only")
          => /\ lastOp'.calls = <<>>
             /\ remote' = remote
             /\ db'.Notifications_Table = db.Notifications_Table
             /\ lastOp'.response.success
             /\ lastOp'.reason \in lastOp'.response.texts]_vars

\* C13: such a template update makes no remote call, writes no ledger record
\* and reports success with one message, the same in both cases; the reason
\* is logged and is no part of the response.
LocalOnlyResponseIsFixed ==
    [][(lastOp'.op = "update_class_endpoint" /\ lastOp'.branch = "local_only")
          => /\ lastOp'.calls = <<>>
             /\ remote' = remote
             /\ db'.Notifications_Table = db.Notifications_Table
             /\ lastOp'.response.status = 200
             /\ lastOp'.response.success
             /\ lastOp'.reason \in LocalOnlyReasons
             /\ lastOp'.response.texts \cap LocalOnlyReasons = {}
             /\ lastOp'.response.texts = {"Class", "updated locally only (no wallet sync)."}]_vars

\* a template with instances was updated without a wallet client
UpdatedLocallyOnly ==
    /\ lastOp.op = "update_class_endpoint"
    /\ lastOp.branch = "local_only"
    /\ ~remote.available
    /\ lastOp.reason = "WalletClient not available"
    /\ PassesOfClass(db, lastOp.id) # {}
    /\ db.Classes_Table[lastOp.id].issuer_name = "Acme 2"

(***************************************************************************)
(* Imports: POST /classes/sync and POST /passes/sync                       *)
(***************************************************************************)
FullId(id) == ISSUER_ID \o <<".">> \o id

\* the id without the issuer prefix, as the imports store it
LocalId(full_id) ==
    IF StartsWith(full_id, ISSUER_ID \o <<".">>)
    THEN SubSeq(full_id, Len(ISSUER_ID) + 2, Len(full_id)) ELSE full_id

\* the keyword arguments both imports hand to create_class and update_class
MetadataKwargs(metadata) ==
    [k \in DOMAIN metadata \ {"class_id", "class_type"} |-> metadata[k]]

\* WalletClient.list_all_classes: the documents of the templates the gateway holds
ListAllClasses(rem) ==
    LET RECURSIVE From(_)
        From(n) == IF n > Len(Digits) THEN <<>>
                   ELSE (IF FullId(ClassId(n)) \in DOMAIN rem.classes
                         THEN <<rem.classes[FullId(ClassId(n))]>> ELSE <<>>) \o From(n + 1)
    IN  From(1)

NoImport == [synced_count |-> 0, new_count |-> 0, updated_count |-> 0, errors |-> <<>>]

\* a loop of sync_classes_from_google that stores nothing
ImportClass_Skip(acc, google_class) == acc

\* one iteration of the loop of sync_classes_from_google
ImportClass(acc, google_class) ==
    LET metadata == ParseGoogleWalletClass(google_class)
        class_id == metadata.class_id
        kwargs == MetadataKwargs(metadata)
    IN  IF class_id \in DOMAIN acc.db.Classes_Table
        THEN [db |-> UpdateClassDb(acc.db, class_id,
                                   Merge([class_type |-> metadata.class_type], kwargs)).db,
              out |-> [acc.out EXCEPT !.updated_count = @ + 1, !.synced_count = @ + 1]]
        ELSE LET r == CreateClassDb(acc.db, class_id, metadata.class_type, kwargs) IN
             IF r.ret = "DatabaseError"
             THEN [db |-> r.db,
                   out |-> [acc.out EXCEPT !.errors = Append(@, [prefix |-> "Error syncing class",
                                                                 id |-> google_class.id])]]
             ELSE [db |-> r.db,
                   out |-> [acc.out EXCEPT !.new_count = @ + 1, !.synced_count = @ + 1]]

\* sync_classes_from_google with a wallet client
ImportClassesDb(d, rem) ==
    LET google_classes == ListAllClasses(rem)
        RECURSIVE Loop(_, _)
        Loop(i, acc) == IF i > Len(google_classes) THEN acc
                        ELSE Loop(i + 1, ImportClass(acc, google_classes[i]))
    IN  Loop(1, [db |-> d, out |-> NoImport])

UnknownEmails == <<"unknown_p1@example.com", "unknown_p2@example.com", "unknown_p3@example.com",
                   "unknown_p4@example.com">>

\* the holder a remote instance document names
HolderName(google_pass) ==
    LET named == IF "ticketHolderName" \in DOMAIN google_pass THEN google_pass.ticketHolderName
                 ELSE IF "accountName" \in DOMAIN google_pass THEN google_pass.accountName
                 ELSE IF "passengerName" \in DOMAIN google_pass THEN google_pass.passengerName
                 ELSE ""
    IN  IF named = "" THEN "Unknown Holder" ELSE named

HolderEmail(google_pass, object_id) ==
    IF Get(google_pass, "accountId", "") = ""
    THEN UnknownEmails[IndexOf(object_id)] ELSE google_pass.accountId

\* pass_data_cleaned: the document without the fields that have columns
PassDataCleaned(google_pass) ==
    [k \in DOMAIN google_pass \ {"id", "classId", "ticketHolderName", "accountName",
                                 "accountId", "state"} |-> google_pass[k]]

\* an import that takes the template of a new instance to be there
MaterializeClass_Never(d, rem, local_class_id) == [db |-> d, ok |-> TRUE, fetched |-> FALSE]

\* the template of a new instance: there already, or fetched from the gateway
\* by its prefixed id and created, or not to be had
MaterializeClass(d, rem, local_class_id) ==
    IF local_class_id \in DOMAIN d.Classes_Table
    THEN [db |-> d, ok |-> TRUE, fetched |-> FALSE]
    ELSE IF FullId(local_class_id) \notin DOMAIN rem.classes
    THEN [db |-> d, ok |-> FALSE, fetched |-> FALSE]
    ELSE LET meta == ParseGoogleWalletClass(rem.classes[FullId(local_class_id)])
             r == CreateClassDb(d, local_class_id, meta.class_type, MetadataKwargs(meta))
         IN  [db |-> r.db, ok |-> r.ret # "DatabaseError", fetched |-> TRUE]

\* one iteration of the loop of sync_passes
ImportPass(acc, rem, google_pass) ==
    LET object_id == LocalId(google_pass.id)
        local_class_id == LocalId(google_pass.classId)
        holder_name == HolderName(google_pass)
        holder_email == HolderEmail(google_pass, object_id)
        pd == PassDataCleaned(google_pass)
        status == IF Get(google_pass, "state", NULL) = "ACTIVE" THEN "Active" ELSE "Expired"
        failed == [prefix |-> "Error syncing pass", id |-> google_pass.id]
    IN  IF object_id \in DOMAIN acc.db.Passes_Table
        THEN LET r == UpdatePassDb(acc.db, object_id,
                                   [holder_name |-> holder_name, holder_email |-> holder_email,
                                    status |-> status, pass_data |-> pd])
             IN  [db |-> r.db, fetched |-> acc.fetched,
                  out |-> [acc.out EXCEPT !.updated_count = @ + 1, !.synced_count = @ + 1]]
        ELSE LET m == MaterializeClass(acc.db, rem, local_class_id)
                 r == CreatePassDb(m.db, object_id, local_class_id, holder_name, holder_email,
                                   pd, status)
                 fetched == IF m.fetched THEN Append(acc.fetched, local_class_id)
                            ELSE acc.fetched
             IN  IF ~m.ok
                 THEN [db |-> m.db, fetched |-> fetched,
                       out |-> [acc.out EXCEPT
                                  !.errors = Append(@, [prefix |-> "Class missing for pass",
                                                        id |-> google_pass.id])]]
                 ELSE IF r.ret = "DatabaseError"
                 THEN [db |-> r.db, fetched |-> fetched,
                       out |-> [acc.out EXCEPT !.errors = Append(@, failed)]]
                 ELSE [db |-> r.db, fetched |-> fetched,
                       out |-> [acc.out EXCEPT !.new_count = @ + 1, !.synced_count = @ + 1]]

\* sync_passes with a wallet client: rem.objects is what list_all_pass_objects
\* returns
ImportPassesDb(d, rem) ==
    LET RECURSIVE Loop(_, _)
        Loop(i, acc) == IF i > Len(rem.objects) THEN acc
                        ELSE Loop(i + 1, ImportPass(acc, rem, rem.objects[i]))
    IN  Loop(1, [db |-> d, fetched |-> <<>>, out |-> NoImport])

SyncComplete == Response(200, TRUE, {"Sync complete. Processed"}, NoErrorText, 0)
NotInitialized == Response(503, FALSE, {"not initialized"}, NoErrorText, 0)

\* POST /classes/sync
SyncClassesFromGoogle ==
    /\ LET r == ImportClassesDb(db, remote) IN
       IF ~remote.available
       THEN /\ lastOp' = [op |-> "sync_classes", response |-> NotInitialized, out |-> NoImport,
                          fetched |-> <<>>, before |-> db]
            /\ UNCHANGED db
       ELSE /\ lastOp' = [op |-> "sync_classes", response |-> SyncComplete, out |-> r.out,
                          fetched |-> <<>>, before |-> db]
            /\ db' = r.db
    /\ UNCHANGED <<prop, pushLog, lk, calc, remote>>

\* POST /passes/sync
SyncPasses ==
    /\ LET r == ImportPassesDb(db, remote) IN
       IF ~remote.available
       THEN /\ lastOp' = [op |-> "sync_passes", response |-> NotInitialized, out |-> NoImport,
                          fetched |-> <<>>, before |-> db]
            /\ UNCHANGED db
       ELSE /\ lastOp' = [op |-> "sync_passes", response |-> SyncComplete, out |-> r.out,
                          fetched |-> r.fetched, before |-> db]
            /\ db' = r.db
    /\ UNCHANGED <<prop, pushLog, lk, calc, remote>>

\* the template import, then the instance import
ImportBoth(d, rem) == ImportPassesDb(ImportClassesDb(d, rem).db, rem).db

\* C16: with a wallet client, an import run on the store an import has left
\* changes nothing: the template import, the instance import, and the two
\* one after the other, leave the templates, the instances, their
\* type-specific rows and their collections as one run left them, with no
\* row twice.
ImportIsIdempotent ==
    remote.available =>
       /\ LET once == ImportClassesDb(db, remote).db IN ImportClassesDb(once, remote).db = once
       /\ LET once == ImportPassesDb(db, remote).db IN ImportPassesDb(once, remote).db = once
       /\ LET once == ImportBoth(db, remote) IN ImportBoth(once, remote) = once

\* the instance import ran on the store an import of instances with text
\* modules and messages had left, and updated them
ImportedTwice ==
    /\ lastOp.op = "sync_passes"
    /\ lastOp.out.updated_count > 0
    /\ lastOp.out.new_count = 0
    /\ lastOp.before = db
    /\ \E o \in DOMAIN db.Passes_Table :
          /\ RowsOf(db.Pass_Text_Modules, o) # <<>>
          /\ RowsOf(db.Pass_Messages, o) # <<>>
          /\ db.Passes_Table[o].holder_name = "John Doe"

\* the documents of the batch whose instance the store does not hold
AbsentLocally(d, rem) ==
    { i \in DOMAIN rem.objects : LocalId(rem.objects[i].id) \notin DOMAIN d.Passes_Table }

\* C17: in one instance import, every remote instance that the store did not
\* hold and whose template is in the store or at the gateway is created, once,
\* with the rows of its collections once, its template having been created
\* from the remote document when the store did not hold it; an instance
\* whose template is neither in the store nor at the gateway is not created
\* and is reported in the errors, the others of the batch are imported all the
\* same, and the response is the one of a completed import.
AbsentInstanceCreatedOrSkipped ==
    [][(lastOp'.op = "sync_passes" /\ remote.available)
          => /\ lastOp'.response = SyncComplete
             /\ \A i \in AbsentLocally(db, remote) :
                   LET g == remote.objects[i]
                       o == LocalId(g.id)
                       c == LocalId(g.classId)
                   IN  IF c \in DOMAIN db.Classes_Table \/ FullId(c) \in DOMAIN remote.classes
                       THEN /\ o \in DOMAIN db'.Passes_Table
                            /\ db'.Passes_Table[o].class_id = c
                            /\ c \in DOMAIN db'.Classes_Table
                            /\ Len(RowsOf(db'.Pass_Text_Modules, o))
                                  = Len(Get(g, "textModulesData", <<>>))
                            /\ Len(RowsOf(db'.Pass_Messages, o)) = Len(Get(g, "messages", <<>>))
                            /\ c \notin DOMAIN db.Classes_Table =>
                                  /\ \E k \in DOMAIN lastOp'.fetched : lastOp'.fetched[k] = c
                                  /\ db'.Classes_Table[c].class_type =
                                        ParseGoogleWalletClass(remote.classes[FullId(c)]).class_type
                       ELSE /\ o \notin DOMAIN db'.Passes_Table
                            /\ c \notin DOMAIN db'.Classes_Table
                            /\ \E k \in DOMAIN lastOp'.out.errors :
                                  lastOp'.out.errors[k].id = g.id
             /\ lastOp'.out.new_count =
                   Cardinality({ i \in AbsentLocally(db, remote) :
                                   LocalId(remote.objects[i].id) \in DOMAIN db'.Passes_Table })
             /\ \A c \in DOMAIN db.Classes_Table :
                   \A k \in DOMAIN lastOp'.fetched : lastOp'.fetched[k] # c]_vars

\* one import skipped an instance whose template was nowhere and created
\* another after it had fetched and created its template
OneSkippedOneMaterialized ==
    /\ lastOp.op = "sync_passes"
    /\ lastOp.response = SyncComplete
    /\ Len(lastOp.out.errors) = 1
    /\ lastOp.out.new_count >= 1
    /\ Len(lastOp.fetched) >= 1
    /\ lastOp.out.errors[1].id = remote.objects[1].id

(***************************************************************************)
(* Review-status stripping: remove_review_status                           *)
(***************************************************************************)
\* JSON values: a dict, a list, or anything else
Dict(items) == [kind |-> "dict", items |-> items]
List(items) == [kind |-> "list", items |-> items]
Scalar(value) == [kind |-> "scalar", value |-> value]

\* the documents of nesting depth up to n: dicts with or without a
\* reviewStatus, a name and a child, and lists of up to two values
RECURSIVE Documents(_)
Documents(n) ==
    IF n = 0 THEN {Scalar("keep me")}
    ELSE LET below == Documents(n - 1)
             flat == { [k \in K |-> IF k = "reviewStatus" THEN Scalar("DRAFT")
                                     ELSE Scalar("keep me")] :
                         K \in SUBSET {"reviewStatus", "value"} }
         IN  below
             \cup { Dict(f) : f \in flat }
             \cup { Dict(Merge([nested |-> c], f)) : f \in flat, c \in below }
             \cup { List(<<>>) }
             \cup { List(<<c>>) : c \in below }
             \cup { List(<<Scalar("keep me"), c>>) : c \in below }

\* a stripping that pops the key of the document and goes no deeper
RemoveReviewStatus_TopLevel(obj) ==
    IF obj.kind = "dict"
    THEN Dict([k \in DOMAIN obj.items \ {"reviewStatus"} |-> obj.items[k]])
    ELSE obj

\* remove_review_status(obj), as the value obj holds after the call
RECURSIVE RemoveReviewStatus(_)
RemoveReviewStatus(obj) ==
    IF obj.kind = "dict"
    THEN Dict([k \in DOMAIN obj.items \ {"reviewStatus"} |-> RemoveReviewStatus(obj.items[k])])
    ELSE IF obj.kind = "list"
    THEN List([i \in DOMAIN obj.items |-> RemoveReviewStatus(obj.items[i])])
    ELSE obj

\* a copy that is the caller's document itself
Deepcopy_Alias(obj) == [value |-> obj, shared |-> TRUE]

\* copy.deepcopy(obj): a value that shares nothing with obj
Deepcopy(obj) == [value |-> obj, shared |-> FALSE]

\* WalletClient.update_pass_class: the body it patches, the caller's
\* class_data after the call, what it raises
UpdatePassClassCall(class_id, class_data, outcome) ==
    LET copy == Deepcopy(class_data)
        clean_class_data == RemoveReviewStatus(copy.value)
    IN  [resourceId |-> PrepareIdsToTry(class_id)[1],
         body |-> clean_class_data,
         class_data |-> IF copy.shared THEN clean_class_data ELSE class_data,
         exception |-> IF outcome = "ok" THEN NoException
                       ELSE [raised |-> TRUE, prefix |-> "Error updating pass class",
                             id |-> class_id, details |-> "backendError"]]

\* wallet_client.update_pass_class(class_id, class_data)
UpdatePassClass(class_id, class_data, outcome) ==
    /\ calc.fn = "none"
    /\ calc' = [fn |-> "update_pass_class", given |-> class_data,
                call |-> UpdatePassClassCall(class_id, class_data, outcome)]
    /\ UNCHANGED <<db, lastOp, prop, pushLog, lk, remote, reqs, handlers>>

\* does the key occur anywhere in the value
RECURSIVE HasReviewStatus(_)
HasReviewStatus(obj) ==
    IF obj.kind = "dict"
    THEN "reviewStatus" \in DOMAIN obj.items
         \/ \E k \in DOMAIN obj.items : HasReviewStatus(obj.items[k])
    ELSE IF obj.kind = "list"
    THEN \E i \in DOMAIN obj.items : HasReviewStatus(obj.items[i])
    ELSE FALSE

\* b has the keys and values of a but for reviewStatus, at every depth
RECURSIVE SameButReviewStatus(_, _)
SameButReviewStatus(a, b) ==
    IF a.kind # b.kind THEN FALSE
    ELSE IF a.kind = "dict"
    THEN /\ DOMAIN b.items = DOMAIN a.items \ {"reviewStatus"}
         /\ \A k \in DOMAIN b.items : SameButReviewStatus(a.items[k], b.items[k])
    ELSE IF a.kind = "list"
    THEN /\ Len(b.items) = Len(a.items)
         /\ \A i \in DOMAIN a.items : SameButReviewStatus(a.items[i], b.items[i])
    ELSE a = b

\* the columns of the rows of a template
StoredColumns(d, c) ==
    DOMAIN d.Classes_Table[c]
    \cup UNION { DOMAIN d[t][c] : t \in ChildTablesWith(d, c) }

\* C18: the body update_pass_class patches has no reviewStatus at any depth
\* and has every other key and value of the caller's document, which is
\* after the call what it was before it; and the rows the template import
\* stored for a template hold no review status of the remote document.
ReviewStatusStripped ==
    /\ calc.fn = "update_pass_class" =>
          /\ ~HasReviewStatus(calc.call.body)
          /\ SameButReviewStatus(calc.given, calc.call.body)
          /\ calc.call.class_data = calc.given
    /\ lastOp.op = "sync_classes" =>
          \A c \in DOMAIN db.Classes_Table :
             /\ "reviewStatus" \notin StoredColumns(db, c)
             /\ \A k \in {"class_type"} \cup CommonColumns \cup ChildColumns :
                   JoinedClassRow(db, c)[k] # "APPROVED"

\* a document with a reviewStatus in a dict inside a list inside a dict was
\* patched, and templates with a review status were imported
NestedReviewStatusPatchedAndImported ==
    /\ calc.fn = "update_pass_class"
    /\ calc.given.kind = "dict"
    /\ "reviewStatus" \in DOMAIN calc.given.items
    /\ "nested" \in DOMAIN calc.given.items
    /\ calc.given.items.nested.kind = "list"
    /\ Len(calc.given.items.nested.items) = 2
    /\ HasReviewStatus(calc.given.items.nested.items[2])
    /\ lastOp.op = "sync_classes"
    /\ lastOp.out.new_count > 0
    /\ \E id \in DOMAIN remote.classes : remote.classes[id].reviewStatus = "APPROVED"

(***************************************************************************)
(* Instance lifecycle: POST /passes/ and the template an instance names    *)
(***************************************************************************)
\* POST /passes/ (api.create_pass): 404 when the template is absent, 400
\* when db.create_pass returns False, 409 on a duplicate entry, else 201
CreatePassEndpoint(object_id, class_id, pd, status) ==
    /\ LET class_exists == class_id \in DOMAIN db.Classes_Table
           r == CreatePassDb(db, object_id, class_id, "Ann", "ann@example.com", pd, status)
           response ==
               IF ~class_exists
               THEN Response(404, FALSE, {"Class", "not found"}, NoErrorText, 0)
               ELSE IF r.ret = "DatabaseError"
               THEN Response(409, FALSE, {"Pass", "already exists"}, NoErrorText, 0)
               ELSE IF r.ret = "True"
               THEN Response(201, TRUE, {"Pass", "created successfully"}, NoErrorText, 0)
               ELSE Response(400, FALSE, {"Failed to create pass"}, NoErrorText, 0)
       IN  /\ db' = IF class_exists THEN r.db ELSE db
           /\ lastOp' = [op |-> "create_pass_endpoint", object_id |-> object_id,
                         class_id |-> class_id, response |-> response, before |-> db]
    /\ UNCHANGED <<prop, pushLog, lk, calc, remote>>

\* C22: every instance names a template of the store; a create on an absent
\* template is rejected and writes nothing; after a template is deleted no
\* instance names it; an instance an import created whose template was
\* missing is on a template the same import fetched and created.
EveryInstanceNamesLocalTemplate ==
    /\ \A o \in DOMAIN db.Passes_Table :
          db.Passes_Table[o].class_id \in DOMAIN db.Classes_Table
    /\ (lastOp.op = "create_pass_endpoint"
          /\ lastOp.class_id \notin DOMAIN lastOp.before.Classes_Table)
       => lastOp.response.status = 404 /\ ~lastOp.response.success /\ db = lastOp.before
    /\ lastOp.op = "delete_class" => PassesOfClass(db, lastOp.class_id) = {}
    /\ lastOp.op = "sync_passes" =>
          \A o \in DOMAIN db.Passes_Table \ DOMAIN lastOp.before.Passes_Table :
             db.Passes_Table[o].class_id \notin DOMAIN lastOp.before.Classes_Table
                => \E k \in DOMAIN lastOp.fetched :
                      lastOp.fetched[k] = db.Passes_Table[o].class_id

\* a template with an instance was deleted
TemplateWithInstanceDeleted ==
    /\ lastOp.op = "delete_class"
    /\ lastOp.ret = "True"
    /\ lastOp.class_id \notin DOMAIN db.Classes_Table
    /\ db.Passes_Table # EmptyTable

(***************************************************************************)
(* Listing instances: GET /passes/                                         *)
(***************************************************************************)
\* the methods of DatabaseManager that list instances
ListingMethods == {"get_all_passes", "get_active_passes", "get_passes_by_class",
                   "get_passes_by_email"}

\* SELECT * FROM Passes_Table: the instances, by object id
GetAllPasses(d) == DOMAIN d.Passes_Table

\* SELECT * FROM Passes_Table WHERE status = 'Active'
GetActivePasses(d) == { o \in DOMAIN d.Passes_Table : d.Passes_Table[o].status = "Active" }

\* the values of the status query parameter; NULL is no parameter
StatusFilters == {NULL, "", "Active", "Expired", "active", "Pending"}

\* GET /passes/?status=...: the status and the instances of the response
GetPassesResponse(d, status) ==
    IF status \in {NULL, ""}
    THEN [status |-> 200, passes |-> GetAllPasses(d)]
    ELSE IF status = "Active"
    THEN [status |-> 200, passes |-> GetActivePasses(d)]
    ELSE IF status = "Expired"
    THEN IF "get_expired_passes" \in ListingMethods
         THEN [status |-> 200,
               passes |-> { o \in DOMAIN d.Passes_Table : d.Passes_Table[o].status = "Expired" }]
         ELSE [status |-> 500, passes |-> {}]   \* AttributeError, caught as Exception
    ELSE [status |-> 400, passes |-> {}]

GetPasses(status) ==
    /\ lastOp' = [op |-> "get_passes", filter |-> status,
                  response |-> GetPassesResponse(db, status)]
    /\ UNCHANGED <<db, prop, pushLog, lk, calc, remote>>

\* C23: a listing filtered by Active or Expired returns exactly the stored
\* instances of that status, a listing without a filter returns all of
\* them, and any other filter value is answered 400.
ListingReturnsInstancesOfStatus ==
    lastOp.op = "get_passes" =>
        LET r == lastOp.response IN
        IF lastOp.filter \in {"Active", "Expired"}
        THEN /\ r.status = 200
             /\ r.passes = { o \in DOMAIN db.Passes_Table :
                                db.Passes_Table[o].status = lastOp.filter }
        ELSE IF lastOp.filter \in {NULL, ""}
        THEN r.status = 200 /\ r.passes = DOMAIN db.Passes_Table
        ELSE r.status = 400

(***************************************************************************)
(* Notification ledger                                                     *)
(***************************************************************************)
\* C24: a request leaves the earlier ledger records as they were, in their
\* order, and at most appends records; only the deletion of a template
\* removes records, those of that template and no others.
LedgerIsAppendOnly ==
    [][LET old == db.Notifications_Table
           new == db'.Notifications_Table
       IN  IF lastOp'.op = "delete_class"
           THEN new = SelectSeq(old, LAMBDA r : r.class_id # lastOp'.class_id
                                                \/ lastOp'.ret # "True")
           ELSE Len(new) >= Len(old) /\ SubSeq(new, 1, Len(old)) = old]_vars

\* an instance with ledger records was deleted and its template propagated
\* again: the ledger holds records of an instance that is gone and later ones
RecordsOutliveInstance ==
    /\ lastOp.op = "update_class_endpoint"
    /\ lastOp.branch = "synced"
    /\ \E k \in DOMAIN db.Notifications_Table :
          /\ db.Notifications_Table[k].object_id \notin DOMAIN db.Passes_Table
          /\ k < Len(db.Notifications_Table)

(***************************************************************************)
(* Concurrent template updates: PUT /classes/{class_id} in several workers *)
(***************************************************************************)
\* the template the concurrent requests update
RaceClass == ClassId(1)

\* the bodies of the concurrent requests
RaceUpdates == { [issuer_name |-> "Acme 2"], [issuer_name |-> "Acme 3"],
                 [venue_name |-> "Hall B"] }

\* a request that has not started: nothing read yet
Waiting(kwargs) ==
    [pc |-> "start", kwargs |-> kwargs, updated_class |-> EmptyDict, seen |-> {},
     upsert_no |-> 0]

\* the requests whose write has committed
Committed == { g \in DOMAIN handlers : handlers[g].pc # "start" }

\* the requests whose upsert has been answered
Upserted == { g \in DOMAIN handlers : handlers[g].pc \in {"upserted", "returned"} }

\* step 1 of update_class: db.update_class(class_id, **update_data), one
\* transaction
HandlerWrite(h) ==
    /\ handlers[h].pc = "start"
    /\ RaceClass \in DOMAIN db.Classes_Table
    /\ db' = UpdateClassDb(db, RaceClass, handlers[h].kwargs).db
    /\ handlers' = [handlers EXCEPT ![h].pc = "written"]
    /\ lastOp' = [op |-> "update_class_endpoint", handler |-> h, step |-> "update_class"]
    /\ UNCHANGED <<prop, pushLog, lk, calc, remote, reqs>>

\* step 2: updated_class = db.get_class(class_id)
HandlerRead(h) ==
    /\ handlers[h].pc = "written"
    /\ handlers' = [handlers EXCEPT ![h].pc = "read",
                                    ![h].updated_class = JoinedClassRow(db, RaceClass),
                                    ![h].seen = Committed]
    /\ lastOp' = [op |-> "update_class_endpoint", handler |-> h, step |-> "get_class"]
    /\ UNCHANGED <<db, prop, pushLog, lk, calc, remote, reqs>>

\* step 3a: wallet_client.create_pass_class(updated_class['class_json'], ...)
HandlerUpsert(h) ==
    /\ handlers[h].pc = "read"
    /\ LET row == handlers[h].updated_class
           up == CreatePassClass(remote.classes, BuildClassJson(row), row.class_type, "none")
       IN  remote' = [remote EXCEPT !.classes = up.classes]
    /\ handlers' = [handlers EXCEPT ![h].pc = "upserted",
                                    ![h].upsert_no = Cardinality(Upserted) + 1]
    /\ lastOp' = [op |-> "update_class_endpoint", handler |-> h, step |-> "create_pass_class"]
    /\ UNCHANGED <<db, prop, pushLog, lk, calc, reqs>>

\* step 3b: propagate_class_update_to_passes, and the response
HandlerPropagate(h, outcome) ==
    /\ handlers[h].pc = "upserted"
    /\ LET row == handlers[h].updated_class
           p == PropagateAll(db, RaceClass, row.class_type,
                             [o \in PassesOfClass(db, RaceClass) |-> outcome])
       IN  db' = p.db
    /\ handlers' = [handlers EXCEPT ![h].pc = "returned"]
    /\ lastOp' = [op |-> "update_class_endpoint", handler |-> h, step |-> "propagate"]
    /\ UNCHANGED <<prop, pushLog, lk, calc, remote, reqs>>

\* every request has returned
AllReturned == \A h \in DOMAIN handlers : handlers[h].pc = "returned"

\* the gateway holds every key of the document with its value
RemoteHolds(doc) ==
    /\ doc.id \in DOMAIN remote.classes
    /\ \A k \in DOMAIN doc : remote.classes[doc.id][k] = doc[k]

\* C25: once the concurrent updates of a template have all returned, the
\* gateway holds the document synthesized from the template as the store
\* has it.
RemoteAgreesWithFinalStore ==
    (handlers # <<>> /\ AllReturned) =>
        RemoteHolds(BuildClassJson(JoinedClassRow(db, RaceClass)))

\* C25, as the code has it: once the concurrent updates have all returned,
\* the gateway holds the document of the request whose upsert came last,
\* synthesized from the row that request read; this is the document of the
\* final store when that request read after every write had committed.
RemoteIsLastUpsert ==
    (handlers # <<>> /\ AllReturned) =>
        \E h \in DOMAIN handlers :
           /\ handlers[h].upsert_no = Len(handlers)
           /\ RemoteHolds(BuildClassJson(handlers[h].updated_class))
           /\ handlers[h].seen = DOMAIN handlers
                 => RemoteHolds(BuildClassJson(JoinedClassRow(db, RaceClass)))

\* the request that read before the other's write committed patched last:
\* the gateway holds a document the store no longer yields
StaleDocumentPatchedLast ==
    /\ handlers # <<>>
    /\ AllReturned
    /\ \E h \in DOMAIN handlers :
          /\ handlers[h].upsert_no = Len(handlers)
          /\ handlers[h].seen # DOMAIN handlers
    /\ ~RemoteHolds(BuildClassJson(JoinedClassRow(db, RaceClass)))

(***************************************************************************)
(* Instance state at the gateway: the object a push patches                *)
(***************************************************************************)
\* str.upper() on the values of Passes_Table.status
Upper(status) ==
    IF status = "Active" THEN "ACTIVE" ELSE IF status = "Expired" THEN "EXPIRED" ELSE status

\* build_*_object: the state of the object built for a status argument,
\* None (NULL) when the caller passes none
GatewayState(status) ==
    IF status # NULL /\ Upper(status) \in {"ACTIVE", "COMPLETED", "EXPIRED", "INACTIVE"}
    THEN Upper(status) ELSE "ACTIVE"

\* the status argument of the update_pass_object calls of the fan-out and of
\* PUT /passes/{object_id}: neither passes one
PushedStatus(pass_row) == NULL

\* send_push_notification: the minimal patch sets the state; a failure is
\* printed and swallowed
SendPushNotification(objects, full_object_id, notified) ==
    IF notified /\ full_object_id \in DOMAIN objects
    THEN Put(objects, full_object_id, GatewayPatch(objects[full_object_id], [state |-> "ACTIVE"]))
    ELSE objects

\* the objects of the gateway after update_pass_object: the built object is
\* patched, then the notification is sent
ObjectsAfterPush(objects, d, object_id, outcome, notified) ==
    LET pass_row == d.Passes_Table[object_id]
        full_object_id == PrepareIdsToTry(object_id)[1]
        full_class_id == PrepareIdsToTry(pass_row.class_id)[1]
        object_data == [id |-> full_object_id, classId |-> full_class_id,
                        state |-> GatewayState(PushedStatus(pass_row))]
    IN  IF outcome # "ok" \/ full_object_id \notin DOMAIN objects THEN objects
        ELSE SendPushNotification(
                 Put(objects, full_object_id, GatewayPatch(objects[full_object_id], object_data)),
                 full_object_id, notified)

\* PUT /passes/{object_id} with sync_to_google and a wallet client: the
\* store is written, the instance is read again and pushed
PushedPassUpdate(object_id, kwargs, outcome, notified) ==
    /\ object_id \in DOMAIN db.Passes_Table
    /\ DOMAIN kwargs # {}
    /\ remote.available
    /\ LET r == UpdatePassDb(db, object_id, kwargs) IN
       /\ db' = r.db
       /\ remote' = [remote EXCEPT
                       !.objects = ObjectsAfterPush(@, r.db, object_id, outcome, notified)]
       /\ lastOp' = [op |-> "update_pass_endpoint", kwargs |-> kwargs,
                     pushed |-> IF outcome = "ok" THEN {object_id} ELSE {}]
    /\ UNCHANGED <<prop, pushLog, lk, calc>>

\* PUT /classes/{class_id} with a wallet client: the store is written, the
\* template is upserted, every instance of the template is pushed and a
\* ledger record written for each
PushedClassUpdate(class_id, kwargs, outcomes, notified) ==
    /\ class_id \in DOMAIN db.Classes_Table
    /\ remote.available
    /\ LET r == UpdateClassDb(db, class_id, kwargs)
           updated_class == JoinedClassRow(r.db, class_id)
           up == CreatePassClass(remote.classes, BuildClassJson(updated_class),
                                 updated_class.class_type, "none")
           passes == GetPassesByClass(r.db, class_id)
           p == PropagateAll(r.db, class_id, updated_class.class_type, outcomes)
           RECURSIVE Pushes(_, _)
           Pushes(i, objects) ==
               IF i > Len(passes) THEN objects
               ELSE Pushes(i + 1, ObjectsAfterPush(objects, r.db, passes[i].object_id,
                                                   outcomes[passes[i].object_id], notified))
       IN  /\ db' = p.db
           /\ remote' = [remote EXCEPT !.classes = up.classes,
                                       !.objects = Pushes(1, @)]
           /\ lastOp' = [op |-> "update_class_endpoint", kwargs |-> kwargs,
                         pushed |-> { o \in DOMAIN outcomes : outcomes[o] = "ok" }]
    /\ UNCHANGED <<prop, pushLog, lk, calc>>

\* C26: after a push, fan-out or instance update, no pushed instance whose
\* local status is Expired has the state ACTIVE at the gateway.
ExpiredInstanceNotPushedActive ==
    lastOp.op \in {"update_pass_endpoint", "update_class_endpoint"} =>
        \A o \in lastOp.pushed :
           db.Passes_Table[o].status = "Expired"
              => remote.objects[FullId(o)].state # "ACTIVE"

(***************************************************************************)
(* Scalar fields of an instance under update_pass and create_pass          *)
(***************************************************************************)
\* the scalar table of an instance and its columns
ScalarTableOf(class_type) ==
    IF class_type = "EventTicket" THEN "EventTicket_Fields" ELSE "Generic_Fields"

ScalarColumns(class_type) ==
    IF class_type = "EventTicket"
    THEN {"ticket_holder_name", "confirmation_code", "seat", "section", "gate"}
    ELSE {"header_value", "subheader_value"}

\* the pass_data keys update_pass reads a scalar column from
KeysOfColumn(c) ==
    IF c = "ticket_holder_name" THEN {"ticket_holder_name", "ticketHolderName"}
    ELSE IF c = "confirmation_code" THEN {"confirmation_code", "confirmationCode"}
    ELSE IF c = "seat" THEN {"seat", "seatNumber"}
    ELSE IF c = "header_value" THEN {"header_value", "header"}
    ELSE {c}

\* C27: update_pass leaves every scalar column for which pass_data supplies
\* no key at the value it had.
UnsuppliedScalarsKept ==
    [][(lastOp'.op = "update_pass" /\ lastOp'.ret = "True"
           /\ "pass_data" \in DOMAIN lastOp'.kwargs
           /\ lastOp'.object_id \in DOMAIN db.Passes_Table)
          => LET o == lastOp'.object_id
                 class_type == db.Classes_Table[db.Passes_Table[o].class_id].class_type
                 t == ScalarTableOf(class_type)
             IN  \A c \in ScalarColumns(class_type) :
                    (KeysOfColumn(c) \cap DOMAIN lastOp'.kwargs.pass_data = {} /\ o \in DOMAIN db[t])
                       => /\ o \in DOMAIN db'[t]
                          /\ db'[t][o][c] = db[t][o][c]]_vars

(***************************************************************************)
(* Order of upsert and fan-out in a template update                        *)
(***************************************************************************)
\* C28: a template update whose remote upsert raised pushes no instance and
\* writes no ledger record; a template update that pushes an instance has
\* upserted the template before, in the same request, without an exception.
NoPushAfterFailedUpsert ==
    [][lastOp'.op = "update_class_endpoint" =>
          LET pushes == { k \in DOMAIN lastOp'.calls : lastOp'.calls[k] = "object.patch" } IN
          /\ lastOp'.exception.raised
                => /\ pushes = {}
                   /\ db'.Notifications_Table = db.Notifications_Table
          /\ pushes # {}
                => /\ lastOp'.branch = "synced"
                   /\ lastOp'.calls[1] = "class.insert"
                   /\ \A k \in pushes : k > 1
          /\ Len(db'.Notifications_Table) = Len(db.Notifications_Table) + Cardinality(pushes)]_vars

\* the upsert of a template with instances failed
UpsertFailedOnTemplateWithInstances ==
    /\ lastOp.op = "update_class_endpoint"
    /\ lastOp.branch = "sync_failed"
    /\ lastOp.exception.raised
    /\ PassesOfClass(db, lastOp.id) # {}
    /\ db.Notifications_Table = <<>>

(***************************************************************************)
(* The issuer prefix across the routines that add and strip it             *)
(***************************************************************************)
\* the characters of a local id, and the ids of up to n of them
IdChars == {"x", "y", "."}

RECURSIVE IdsOfLen(_)
IdsOfLen(n) == IF n = 0 THEN {<<>>}
               ELSE { <<c>> \o s : c \in IdChars, s \in IdsOfLen(n - 1) }

\* local ids: plain, with dots, and beginning with the issuer digits
PrefixedLocalIds ==
    { p \o s : p \in {<<>>, ISSUER_ID}, s \in UNION { IdsOfLen(n) : n \in 1..MaxIdLen } }

\* sync_passes: the local id of a full id, full_id.split(".", 1)[1] when the
\* full id starts with the issuer id and a dot
SplitLocalId(full_id) ==
    IF StartsWith(full_id, ISSUER_ID \o <<".">>)
    THEN LET dot == CHOOSE k \in 1..Len(full_id) :
                       full_id[k] = "." /\ \A j \in 1..(k - 1) : full_id[j] # "."
         IN  SubSeq(full_id, dot + 1, Len(full_id))
    ELSE full_id

\* the id of the synthesized document of local id X, the first candidate of
\* the resolver for X, and what the parser and the instance import make of
\* the document id
ResolveIds(class_id, class_type) ==
    /\ calc.fn = "none"
    /\ LET doc == GetTemplate(class_type, class_id, EmptyDict) IN
       calc' = [fn |-> "ids", class_id |-> class_id, class_type |-> class_type,
                doc_id |-> doc.id,
                first |-> PrepareIdsToTry(class_id)[1],
                parsed |-> ParseGoogleWalletClass(doc).class_id,
                imported |-> SplitLocalId(doc.id)]
    /\ UNCHANGED <<db, lastOp, prop, pushLog, lk, remote, reqs, handlers>>

\* C29: for every local id X the document id is the issuer id, a dot and X,
\* it is the resolver's first candidate for X, and the parser and the
\* instance import both strip it back to X.
IssuerPrefixRoutinesAgree ==
    calc.fn = "ids" =>
        /\ calc.doc_id = FullId(calc.class_id)
        /\ calc.first = calc.doc_id
        /\ calc.parsed = calc.class_id
        /\ calc.imported = calc.class_id

(***************************************************************************)
(* The scalar row create_pass and update_pass make of one pass_data        *)
(***************************************************************************)
\* the keys of a pass_data and the value each carries when present
ScalarKeys == {"seat", "seatNumber", "confirmation_code", "confirmationCode",
               "header_value", "header", "event_ticket_data", "generic_data"}

ScalarValue(k) ==
    CASE k = "seat" -> "A1"
      [] k = "seatNumber" -> "B2"
      [] k = "confirmation_code" -> "C1"
      [] k = "confirmationCode" -> "C2"
      [] k = "header_value" -> "VIP"
      [] k = "header" -> "Guest"
      [] k = "event_ticket_data" -> [seat |-> "N1", gate |-> "G4"]
      [] k = "generic_data" -> [header_value |-> "Member"]

ScalarPassDatas == { [k \in S |-> ScalarValue(k)] : S \in SUBSET ScalarKeys }

\* a store with template n and nothing else, and with an instance created
\* on it without pass_data
TemplateOnly(n) ==
    CreateClassDb(EmptyDb, ClassId(n), TypeOfTemplate(n), FullClassArgs(TypeOfTemplate(n))).db

BareInstance(n) ==
    CreatePassDb(TemplateOnly(n), ObjectId(1), ClassId(n), "Ann", "ann@example.com",
                 EmptyDict, "Active").db

\* the scalar row of an instance created with pd, and the scalar row of an
\* instance created without pass_data and then updated with pd
MapPassData(n, pd) ==
    /\ calc.fn = "none"
    /\ LET t == ScalarTableOf(TypeOfTemplate(n))
           created == CreatePassDb(TemplateOnly(n), ObjectId(1), ClassId(n), "Ann",
                                   "ann@example.com", pd, "Active").db
           updated == UpdatePassDb(BareInstance(n), ObjectId(1), [pass_data |-> pd]).db
       IN  calc' = [fn |-> "scalar_row", class_type |-> TypeOfTemplate(n), pass_data |-> pd,
                    created |-> created[t][ObjectId(1)],
                    updated |-> updated[t][ObjectId(1)]]
    /\ UNCHANGED <<db, lastOp, prop, pushLog, lk, remote, reqs, handlers>>

\* C30: create_pass and update_pass store the same scalar row for the same
\* pass_data.
CreateAndUpdateStoreSameRow ==
    calc.fn = "scalar_row" => calc.created = calc.updated

(***************************************************************************)
(* Specifications                                                          *)
(***************************************************************************)
CalcIdle == [fn |-> "none"]
RemoteIdle == [available |-> TRUE, classes |-> EmptyTable, objects |-> EmptyTable]

\* one remote lookup of an identifier a caller passes
InitLookup ==
    /\ db = EmptyDb
    /\ lastOp = NoOp
    /\ prop = PropIdle
    /\ pushLog = <<>>
    /\ lk = LookupIdle
    /\ calc = CalcIdle
    /\ remote = RemoteIdle
    /\ reqs = 0
    /\ handlers = <<>>

NextLookup ==
    \/ \E fn \in LookupFns : \E raw \in RawIds : LookupBegin(fn, raw)
    \/ \E status \in HttpStatuses : Probe(status)

SpecLookup == InitLookup /\ [][NextLookup]_vars

\* one template row synthesized into a document and parsed back
InitRoundTrip == InitLookup

NextRoundTrip == \E row \in ClassRows : RoundTrip(row)

SpecRoundTrip == InitRoundTrip /\ [][NextRoundTrip]_vars

\* requests against the store, starting from the empty store
InitStore == InitLookup

NextStore ==
    \/ \E c \in ClassIds : \E t \in ClassTypes : CreateClass(c, t) /\ UNCHANGED <<reqs, handlers>>
    \/ \E c \in ClassIds : DeleteClass(c) /\ UNCHANGED <<reqs, handlers>>
    \/ \E o \in ObjectIds : \E c \in ClassIds :
          CreatePass(o, c, FullPassData) /\ UNCHANGED <<reqs, handlers>>
    \/ \E o \in ObjectIds : DeletePass(o) /\ UNCHANGED <<reqs, handlers>>

SpecStore == InitStore /\ [][NextStore]_vars

\* a store with an EventTicket template and a Generic template and one
\* instance on each, created with scalar values, text modules and messages
UpdateStore ==
    LET full == FullPassData
        c == CreateClassDb(CreateClassDb(EmptyDb, ClassId(1), "EventTicket",
                                         FullClassArgs("EventTicket")).db,
                           ClassId(2), "Generic", FullClassArgs("Generic")).db
    IN  CreatePassDb(CreatePassDb(c, ObjectId(1), ClassId(1), "Ann", "ann@example.com",
                                  full, "Active").db,
                     ObjectId(2), ClassId(2), "Ann", "ann@example.com", full, "Active").db

\* the two instances, and an id without an instance
UpdateTargets == { ObjectId(1), ObjectId(2), ObjectId(3) }

\* updates of the instances of that store
InitUpdate ==
    /\ db = UpdateStore
    /\ lastOp = NoOp
    /\ prop = PropIdle
    /\ pushLog = <<>>
    /\ lk = LookupIdle
    /\ calc = CalcIdle
    /\ remote = RemoteIdle
    /\ reqs = 0
    /\ handlers = <<>>

NextUpdate == \E o \in UpdateTargets : \E kw \in UpdateKwargs : UpdatePass(o, kw) /\ UNCHANGED <<reqs, handlers>>

SpecUpdate == InitUpdate /\ [][NextUpdate]_vars

\* at most MaxRequests requests: the guard of a counted request
Counted == reqs < MaxRequests /\ reqs' = reqs + 1 /\ UNCHANGED handlers

\* templates created, updated and deleted, starting from the empty store
InitClasses == InitLookup

NextClasses ==
    \/ Counted /\ \E c \in ClassIds : \E t \in ClassTypes : CreateClass(c, t)
    \/ Counted /\ \E c \in ClassIds : \E kw \in ClassUpdates : UpdateClass(c, kw)
    \/ Counted /\ \E c \in ClassIds : DeleteClass(c)

SpecClasses == InitClasses /\ [][NextClasses]_vars

\* the store after create_class for every template and create_pass for the
\* instances 1..n, instance k on template a[k]
RECURSIVE StoreWith(_, _, _)
StoreWith(a, c, n) ==
    IF n > 0
    THEN CreatePassDb(StoreWith(a, c, n - 1), ObjectId(n), ClassId(a[n]),
                      "Ann", "ann@example.com", EmptyDict, "Active").db
    ELSE IF c > 0
    THEN CreateClassDb(StoreWith(a, c - 1, 0), ClassId(c), TypeOfTemplate(c),
                       FullClassArgs(TypeOfTemplate(c))).db
    ELSE EmptyDb

\* the four writes with faults, starting from the empty store
InitAtomic == InitLookup

NextAtomic ==
    \/ \E c \in ClassIds : \E t \in {TypeOfTemplate(n) : n \in 1..MaxClasses} :
          \E fault \in 0..Len(CreateClassSteps(db, c, t, FullClassArgs(t))) :
             Counted /\ CreateClassTx(c, t, fault)
    \/ \E c \in ClassIds : \E kw \in ClassUpdates :
          \E fault \in 0..Len(UpdateClassSteps(db, c, kw)) :
             Counted /\ UpdateClassTx(c, kw, fault)
    \/ \E o \in ObjectIds : \E c \in ClassIds :
          \E fault \in 0..Len(CreatePassSteps(db, o, c, "Ann", "ann@example.com",
                                              FullPassData, "Active")) :
             Counted /\ CreatePassTx(o, c, FullPassData, fault)
    \/ \E o \in ObjectIds : \E kw \in UpdateKwargs :
          \E fault \in 0..Len(UpdatePassSteps(db, o, kw)) :
             Counted /\ UpdatePassTx(o, kw, fault)

SpecAtomic == InitAtomic /\ [][NextAtomic]_vars

\* the store the endpoints are called on: every instance is of template 1
EndpointStore == StoreWith([k \in 1..MaxObjects |-> 1], MaxClasses, MaxObjects)

\* at most MaxCalls requests to the endpoints
CountedCall == reqs < MaxCalls /\ reqs' = reqs + 1 /\ UNCHANGED handlers

\* requests to the two endpoints, with a wallet client or without one
InitEndpoint ==
    /\ db = EndpointStore
    /\ lastOp = NoOp
    /\ prop = PropIdle
    /\ pushLog = <<>>
    /\ lk = LookupIdle
    /\ calc = CalcIdle
    /\ \E available \in BOOLEAN : remote = [RemoteIdle EXCEPT !.available = available]
    /\ reqs = 0
    /\ handlers = <<>>

\* the inputs of a request that the request gets to: a failed write is
\* followed by no remote call, a failed upsert by no push; at most one push
\* of a fan-out fails
NextEndpoint ==
    \/ \E c \in ClassIds \cup {ClassId(MaxClasses + 1)} : \E kw \in EndpointClassUpdates :
          \E fault \in 0..Len(UpdateClassSteps(db, c, kw)) : \E upsert_fault \in UpsertFaults :
             \E outcomes \in [PassesOfClass(db, c) -> PushOutcomes] :
                /\ CountedCall
                /\ fault > 0 => upsert_fault = "none"
                /\ (fault > 0 \/ upsert_fault # "none") => \A o \in DOMAIN outcomes : outcomes[o] = "ok"
                /\ Cardinality({ o \in DOMAIN outcomes : outcomes[o] # "ok" }) <= 1
                /\ UpdateClassEndpoint(c, kw, fault, upsert_fault, outcomes)
    \/ \E o \in {ObjectId(1), ObjectId(MaxObjects + 1)} : \E kw \in EndpointPassUpdates :
          \E fault \in 0..Len(UpdatePassSteps(db, o, kw)) : \E sync_to_google \in BOOLEAN :
             \E outcome \in PushOutcomes :
                /\ CountedCall
                /\ (fault > 0 \/ ~sync_to_google) => outcome = "ok"
                /\ fault > 0 => sync_to_google
                /\ UpdatePassEndpoint(o, kw, fault, sync_to_google, outcome)

SpecEndpoint == InitEndpoint /\ [][NextEndpoint]_vars

\* the document of template n at the gateway
RemoteClassDoc(n) ==
    [BuildClassJson(ClassRow(ClassId(n), TypeOfTemplate(n),
                             CommonColumns \cup ColumnsOfType(TypeOfTemplate(n))))
        EXCEPT !.reviewStatus = "APPROVED"]

\* the document of instance n of template c at the gateway: with a holder,
\* text modules and messages, or bare
RemotePassDoc(n, c, bare) ==
    LET ids == [id |-> FullId(ObjectId(n)), classId |-> FullId(ClassId(c))] IN
    IF bare THEN Merge(ids, [state |-> "EXPIRED"])
    ELSE Merge(ids, [state |-> "ACTIVE", ticketHolderName |-> "John Doe",
                     accountId |-> "john@example.com",
                     textModulesData |-> ModuleList(MaxModules),
                     messages |-> MessageList(MaxModules)])

\* a gateway that holds the templates of present and MaxObjects instances,
\* instance n of template a[n]
RemoteWith(available, present, a, bare) ==
    [available |-> available,
     classes |-> [id \in { FullId(ClassId(n)) : n \in present } |->
                     RemoteClassDoc(CHOOSE n \in present : FullId(ClassId(n)) = id)],
     objects |-> [n \in 1..MaxObjects |-> RemotePassDoc(n, a[n], bare /\ n = 1)]]

\* imports from an unchanged gateway into an empty store or into a store
\* that holds templates and instances of its own
InitImport ==
    /\ db \in {EmptyDb, UpdateStore}
    /\ lastOp = NoOp
    /\ prop = PropIdle
    /\ pushLog = <<>>
    /\ lk = LookupIdle
    /\ calc = CalcIdle
    /\ \E available \in BOOLEAN : \E present \in SUBSET (1..MaxClasses) :
          \E a \in [1..MaxObjects -> 1..MaxClasses] : \E bare \in BOOLEAN :
             remote = RemoteWith(available, present, a, bare)
    /\ reqs = 0
    /\ handlers = <<>>

NextImport ==
    \/ Counted /\ SyncClassesFromGoogle
    \/ Counted /\ SyncPasses

SpecImport == InitImport /\ [][NextImport]_vars

\* patches of documents of every shape, and template imports from a gateway
\* whose templates have a review status
InitStrip ==
    /\ db = EmptyDb
    /\ lastOp = NoOp
    /\ prop = PropIdle
    /\ pushLog = <<>>
    /\ lk = LookupIdle
    /\ calc = CalcIdle
    /\ remote = RemoteWith(TRUE, 1..MaxClasses, [n \in 1..MaxObjects |-> 1], FALSE)
    /\ reqs = 0
    /\ handlers = <<>>

NextStrip ==
    \/ \E class_data \in Documents(MaxDepth) : \E outcome \in PushOutcomes :
          UpdatePassClass(ClassId(1), class_data, outcome)
    \/ SyncClassesFromGoogle /\ UNCHANGED <<reqs, handlers>>

SpecStrip == InitStrip /\ [][NextStrip]_vars

\* the gateway of the lifecycle: template 1, and instance n of template
\* 1 + (n - 1) % MaxClasses
LifecycleRemote ==
    RemoteWith(TRUE, {1}, [n \in 1..MaxObjects |-> 1 + ((n - 1) % MaxClasses)], FALSE)

LifecycleUpdates == { [status |-> "Expired"], [pass_data |-> ScalarPart] }

\* creates, updates, deletes and imports, from the empty store or from a
\* store with templates and instances
InitLifecycle ==
    /\ db \in {EmptyDb, UpdateStore}
    /\ lastOp = NoOp
    /\ prop = PropIdle
    /\ pushLog = <<>>
    /\ lk = LookupIdle
    /\ calc = CalcIdle
    /\ remote = LifecycleRemote
    /\ reqs = 0
    /\ handlers = <<>>

NextLifecycle ==
    \/ CountedCall /\ \E n \in 1..MaxClasses : CreateClass(ClassId(n), TypeOfTemplate(n))
    \/ CountedCall /\ \E c \in ClassIds : DeleteClass(c)
    \/ CountedCall /\ \E o \in ObjectIds : \E c \in ClassIds :
          CreatePassEndpoint(o, c, FullPassData, "Active")
    \/ CountedCall /\ \E o \in ObjectIds : \E kw \in LifecycleUpdates : UpdatePass(o, kw)
    \/ CountedCall /\ \E o \in ObjectIds : DeletePass(o)
    \/ CountedCall /\ SyncClassesFromGoogle
    \/ CountedCall /\ SyncPasses
    \/ CountedCall /\ \E status \in StatusFilters : GetPasses(status)

SpecLifecycle == InitLifecycle /\ [][NextLifecycle]_vars

\* the store of the endpoints after a propagation over template 1 in
\* which the push of instance 1 failed
LedgerStore ==
    PropagateAll(EndpointStore, ClassId(1), TypeOfTemplate(1),
                 [o \in PassesOfClass(EndpointStore, ClassId(1)) |->
                     IF o = ObjectId(1) THEN "HttpError" ELSE "ok"]).db

\* template updates that propagate, instance updates, instance deletes and
\* template deletes, from a store without and a store with ledger records
InitLedger ==
    /\ db \in {EndpointStore, LedgerStore}
    /\ lastOp = NoOp
    /\ prop = PropIdle
    /\ pushLog = <<>>
    /\ lk = LookupIdle
    /\ calc = CalcIdle
    /\ remote = RemoteIdle
    /\ reqs = 0
    /\ handlers = <<>>

NextLedger ==
    \/ CountedCall /\ \E c \in ClassIds :
          \E outcomes \in [PassesOfClass(db, c) -> PushOutcomes] :
             UpdateClassEndpoint(c, [issuer_name |-> "Acme 2"], 0, "none", outcomes)
    \/ CountedCall /\ \E o \in ObjectIds : \E kw \in LifecycleUpdates :
          \E outcome \in PushOutcomes : UpdatePassEndpoint(o, kw, 0, TRUE, outcome)
    \/ CountedCall /\ \E o \in ObjectIds : DeletePass(o)
    \/ CountedCall /\ \E c \in ClassIds : DeleteClass(c)

SpecLedger == InitLedger /\ [][NextLedger]_vars

\* MaxHandlers updates of template 1 in flight, each with a body of its
\* own choice, the gateway without a copy of the template
InitRace ==
    /\ db = EndpointStore
    /\ lastOp = NoOp
    /\ prop = PropIdle
    /\ pushLog = <<>>
    /\ lk = LookupIdle
    /\ calc = CalcIdle
    /\ remote = RemoteIdle
    /\ reqs = 0
    /\ \E ks \in [1..MaxHandlers -> RaceUpdates] :
          handlers = [h \in 1..MaxHandlers |-> Waiting(ks[h])]

NextRace ==
    \/ \E h \in DOMAIN handlers : HandlerWrite(h)
    \/ \E h \in DOMAIN handlers : HandlerRead(h)
    \/ \E h \in DOMAIN handlers : HandlerUpsert(h)
    \/ \E h \in DOMAIN handlers : \E outcome \in PushOutcomes : HandlerPropagate(h, outcome)

SpecRace == InitRace /\ [][NextRace]_vars

\* the store of the endpoints with the instances of expired set to Expired,
\* and a gateway that holds every instance in the state of its local status
PushStore(expired) ==
    [EndpointStore EXCEPT
        !.Passes_Table = [o \in DOMAIN @ |->
                             IF o \in expired THEN [@[o] EXCEPT !.status = "Expired"] ELSE @[o]]]

PushRemote(d) ==
    [RemoteIdle EXCEPT
        !.objects = [id \in { FullId(o) : o \in DOMAIN d.Passes_Table } |->
                        LET o == CHOOSE x \in DOMAIN d.Passes_Table : FullId(x) = id IN
                        [id |-> id, classId |-> FullId(d.Passes_Table[o].class_id),
                         state |-> Upper(d.Passes_Table[o].status)]]]

InitPush ==
    /\ \E expired \in SUBSET {ObjectId(1)} :
          /\ db = PushStore(expired)
          /\ remote = PushRemote(PushStore(expired))
    /\ lastOp = NoOp
    /\ prop = PropIdle
    /\ pushLog = <<>>
    /\ lk = LookupIdle
    /\ calc = CalcIdle
    /\ reqs = 0
    /\ handlers = <<>>

NextPush ==
    \/ CountedCall /\ \E o \in ObjectIds : \E kw \in EndpointPassUpdates \cup {[status |-> "Active"]} :
          \E outcome \in PushOutcomes : \E notified \in BOOLEAN :
             PushedPassUpdate(o, kw, outcome, notified)
    \/ CountedCall /\ \E c \in ClassIds :
          \E outcomes \in [PassesOfClass(db, c) -> PushOutcomes] : \E notified \in BOOLEAN :
             PushedClassUpdate(c, [issuer_name |-> "Acme 2"], outcomes, notified)

SpecPush == InitPush /\ [][NextPush]_vars

\* the routines applied to one local id
InitIds == InitLookup

NextIds == \E X \in PrefixedLocalIds : \E t \in ClassTypes : ResolveIds(X, t)

SpecIds == InitIds /\ [][NextIds]_vars

\* one pass_data through create_pass and through update_pass
InitScalar == InitLookup

NextScalar == \E n \in 1..MaxClasses : \E pd \in ScalarPassDatas : MapPassData(n, pd)

SpecScalar == InitScalar /\ [][NextScalar]_vars

\* one upsert of a template document into a gateway that holds a copy or none
InitUpsert == InitLookup

NextUpsert ==
    \E row \in UpsertRows : \E before \in RemoteCopies(row) : \E fault \in UpsertFaults :
       Upsert(row, before, fault)

SpecUpsert == InitUpsert /\ [][NextUpsert]_vars

\* propagations over a store that holds MaxFanOut instances, spread over the
\* templates in every way
InitPropagate ==
    /\ \E a \in [1..MaxFanOut -> 1..MaxClasses] : db = StoreWith(a, MaxClasses, MaxFanOut)
    /\ lastOp = NoOp
    /\ prop = PropIdle
    /\ pushLog = <<>>
    /\ lk = LookupIdle
    /\ calc = CalcIdle
    /\ remote = RemoteIdle
    /\ reqs = 0
    /\ handlers = <<>>

NextPropagate ==
    \/ \E c \in ClassIds : PropagateBegin(c)
    \/ \E outcome \in PushOutcomes : PushPass(outcome)

SpecPropagate == InitPropagate /\ [][NextPropagate]_vars

=============================================================================
